---------------------------- MODULE Spec2Model ----------------------------
(***************************************************************************)
(* Model of the homework / donation collection backends:                   *)
(*   - the record store adapter (class Database: connect, disconnect,      *)
(*     getCollection),                                                      *)
(*   - the donation routes (submit, delete one, delete batch, clear all,   *)
(*     read logs) with their middleware chain ensureDatabase ->            *)
(*     checkAdminAuth -> handler,                                           *)
(*   - the practice-record ("homework") routes in both variants            *)
(*     (server/routes.js and simple-server.js).                            *)
(***************************************************************************)
EXTENDS Integers, Sequences, FiniteSets, TLC

(***************************************************************************)
(* Bounds of the model.                                                    *)
(***************************************************************************)
\* MongoClient objects the concurrent connect() calls may create in one run
MaxClients == 4
\* MongoClient objects the request handlers may create in one run
MaxHandlerClients == 5
\* entries of the `data` array of one donation submission
MaxBatch == 2
\* ObjectIds the process generates in one run
MaxOid == 4
\* operation-log entries written in one run
MaxLogs == 2
\* instants `new Date()` the practice-record writes take in one run
MaxClock == 3
\* the most donations a day's aggregate counts
MaxCount == 15
\* documents in a collection a report is computed from
MaxDocs == 31
\* characters of a text field of an exported record
MaxText == 3
\* donations in the collection a date range is matched against
MaxRangeDocs == 2
\* MongoClient objects created before the store is restored
MaxOutageClients == 5

(***************************************************************************)
(* Program constants.                                                      *)
(***************************************************************************)
\* this.maxRetries = 3 (Database constructor)
maxRetries == 3
\* GET /api/stats: { $limit: 20 } of the project breakdown, { $limit: 10 }
\* of the device breakdown, { $limit: 30 } of the daily breakdown, and the
\* 30 of thirtyDaysAgo.setDate(thirtyDaysAgo.getDate() - 30)
ProjectLimit == 20
DeviceLimit == 10
DailyLimit == 30
WindowDays == 30

VARIABLES
  \* ---- class Database (the singleton `database`) ----
  client,        \* this.client: 0 = null, k > 0 = the k-th MongoClient created
  db,            \* this.db: 0 = null, k > 0 = the Db handle of client k
  isConnected,   \* this.isConnected
  retryCount,    \* this.retryCount
  nextClient,    \* number of MongoClient objects created so far
  \* ---- connect() calls in flight, one per caller ----
  pc,            \* where each caller's connect() call stands
  awaited,       \* the client whose connect() promise the call awaits
  tries,         \* connection attempts made by the caller's current call
  retries,       \* retries (catch-block re-entries) made by the current call
  result,        \* the handle the call returned (0 = none)
  closing,       \* a disconnect() call is awaiting client.close()
  \* ---- the store ----
  donations,     \* collection 'donations': a set of documents
  logs,          \* the operation-log collection, in insertion order
  nextOid,       \* number of ObjectIds generated so far
  homework,      \* the practice-record collection: a set of documents
  homeworkLogs,  \* the practice-record log collection, in insertion order
  clock,         \* the instants `new Date()` gave to the writes stored so far
  dbClient,      \* simple-server.js: the module variable dbClient, or
                 \* "notRunning" when the process runs server.js instead
  \* ---- the last request served ----
  last,          \* the request, what its handler chain did, its response
  \* ---- the environment ----
  store          \* whether the store can be reached: "up", "down",
                 \* "restored" (up again for good), or "untracked" where
                 \* every attempt may succeed or fail

adapterVars == <<client, db, isConnected, retryCount, nextClient>>
callVars == <<pc, awaited, tries, retries, result, closing>>
storeVars == <<donations, logs, nextOid>>
homeworkVars == <<homework, homeworkLogs, clock, dbClient>>
vars == <<adapterVars, callVars, storeVars, homeworkVars, last, store>>

(***************************************************************************)
(* JavaScript values of request fields.                                    *)
(***************************************************************************)
Undef == [t |-> "undefined"]
Null == [t |-> "null"]
Str(s) == [t |-> "string", s |-> s]
Num(n) == [t |-> "number", n |-> n]

\* a string given by its characters, where the code reads them
Chars(cs) == [t |-> "string", cs |-> cs]
NaN == [t |-> "NaN"]

\* ToBoolean(v), as used by !, && and ||
Truthy(v) ==
  CASE v.t = "string" -> IF "s" \in DOMAIN v THEN v.s # "" ELSE v.cs # <<>>
    [] v.t = "number" -> v.n # 0
    [] OTHER -> FALSE

\* a || b
OrElse(a, b) == IF Truthy(a) THEN a ELSE b

\* typeof v === 'string'
IsString(v) == v.t = "string"

\* new ObjectId().toString(): the k-th ObjectId of the process, a 24 digit
\* hexadecimal string different from every other one
Oid(k) == "oid" \o ToString(k)

\* ObjectId.isValid(id) for the string ids of the model: the 24 digit
\* hexadecimal strings are valid, the other id strings of the model are not
ObjectIdIsValid(id) == id \in {Oid(k) : k \in 1..(MaxOid + 1)}

\* No request served yet.
NoRequest ==
  [kind |-> "none", status |-> 0, adminPassword |-> Undef, attempts |-> 0,
   storeOps |-> 0, primary |-> "none", log |-> "none",
   n |-> 0, valid |-> 0, submittedCount |-> 0, failedCount |-> 0,
   warning |-> FALSE, batchId |-> Undef, insertedIds |-> {},
   id |-> "", incomplete |-> FALSE, swallowed |-> FALSE, deletedCount |-> 0,
   connected |-> FALSE, updateData |-> [f \in {} |-> Undef],
   counters |-> [f \in {} |-> Undef],
   yesterdayCount |-> 0, todayCount |-> 0, growthRate |-> "",
   now |-> 0, report |-> [f \in {} |-> Undef], csv |-> <<>>,
   tz |-> 0, matched |-> {},
   pending |-> {}, limit |-> 0, pageLength |-> 0, totalCount |-> 0,
   statsResult |-> [count |-> 0, byProject |-> [p \in {} |-> 0]],
   byProject |-> [p \in {} |-> 0], disturbed |-> FALSE]

\* Who calls database.connect(): the delayed start-up connect of
\* app.listen, the setInterval reconnection check, and a request's
\* ensureDatabase middleware.
Callers == {"startup", "timer", "req"}

\* this.client.db(dbName): the Db handle shares the sockets of the client it
\* was taken from, so a handle is identified by that client.
DbOf(c) == c

ConstructorState ==
  /\ client = 0
  /\ db = 0
  /\ isConnected = FALSE
  /\ retryCount = 0
  /\ nextClient = 0

\* The collections start empty.
StoreEmpty ==
  /\ donations = {}
  /\ logs = <<>>
  /\ nextOid = 0
  /\ homework = {}
  /\ homeworkLogs = <<>>
  /\ clock = 0

CallsIdle ==
  /\ pc = [c \in Callers |-> "idle"]
  /\ awaited = [c \in Callers |-> 0]
  /\ tries = [c \in Callers |-> 0]
  /\ retries = [c \in Callers |-> 0]
  /\ result = [c \in Callers |-> 0]
  /\ closing = FALSE

(***************************************************************************)
(* Database.connect(), one action per synchronous stretch between awaits.  *)
(***************************************************************************)

\* The clients the model lets connect() create: where the store is tracked,
\* those of the outage and one more for each caller once it is restored.
ClientLimit ==
  IF store = "untracked" THEN MaxClients
  ELSE MaxOutageClients + Cardinality(Callers)

\* connect() without the early return of lines 14-17: a client is created
\* even when the adapter is connected.
EnterConnectNoCache(c, first) ==
  /\ nextClient < ClientLimit
  /\ nextClient' = nextClient + 1
  /\ client' = nextClient + 1
  /\ awaited' = [awaited EXCEPT ![c] = nextClient + 1]
  /\ pc' = [pc EXCEPT ![c] = "connecting"]
  /\ tries' = [tries EXCEPT ![c] = IF first THEN 1 ELSE @ + 1]
  /\ retries' = [retries EXCEPT ![c] = IF first THEN 0 ELSE @]
  /\ result' = [result EXCEPT ![c] = 0]
  /\ UNCHANGED <<db, isConnected, retryCount, closing>>

\* Lines 13-37: the body of connect() up to `await this.client.connect()`.
\* Entered by a fresh call (first = TRUE) and by the recursive call of the
\* retry branch.
EnterConnect(c, first) ==
  IF isConnected
  THEN \* lines 14-17: return this.db
       /\ pc' = [pc EXCEPT ![c] = "returned"]
       /\ result' = [result EXCEPT ![c] = db]
       /\ tries' = [tries EXCEPT ![c] = IF first THEN 0 ELSE @]
       /\ retries' = [retries EXCEPT ![c] = IF first THEN 0 ELSE @]
       /\ UNCHANGED <<adapterVars, awaited, closing>>
  ELSE \* lines 26-37: this.client = new MongoClient(...); await connect()
       /\ nextClient < ClientLimit
       /\ nextClient' = nextClient + 1
       /\ client' = nextClient + 1
       /\ awaited' = [awaited EXCEPT ![c] = nextClient + 1]
       /\ pc' = [pc EXCEPT ![c] = "connecting"]
       /\ tries' = [tries EXCEPT ![c] = IF first THEN 1 ELSE @ + 1]
       /\ retries' = [retries EXCEPT ![c] = IF first THEN 0 ELSE @]
       /\ result' = [result EXCEPT ![c] = 0]
       /\ UNCHANGED <<db, isConnected, retryCount, closing>>

\* A caller invokes database.connect(), the reconnection check without
\* looking at database.isConnected.
CallUnguarded(c) ==
  /\ pc[c] = "idle"
  /\ EnterConnect(c, TRUE)

\* A caller invokes database.connect().  The reconnection check of
\* setInterval calls it only when !database.isConnected (lines 92-93).
Call(c) ==
  /\ pc[c] = "idle"
  /\ c = "timer" => ~isConnected
  /\ EnterConnect(c, TRUE)

\* The catch block without `this.retryCount++`.
CatchUncounted(c) ==
  /\ pc' = [pc EXCEPT ![c] = "sleeping"]
  /\ retries' = [retries EXCEPT ![c] = @ + 1]
  /\ UNCHANGED retryCount

\* Lines 49-61: the catch block.
Catch(c) ==
  IF retryCount < maxRetries
  THEN /\ retryCount' = retryCount + 1
       /\ pc' = [pc EXCEPT ![c] = "sleeping"]
       /\ retries' = [retries EXCEPT ![c] = @ + 1]
  ELSE /\ pc' = [pc EXCEPT ![c] = "thrown"]
       /\ UNCHANGED <<retryCount, retries>>

\* Lines 37-43: client.connect() resolved; db and isConnected are set before
\* the ping is awaited.
ConnectResolve(c) ==
  /\ pc[c] = "connecting"
  /\ db' = DbOf(client)
  /\ isConnected' = TRUE
  /\ pc' = [pc EXCEPT ![c] = "pinging"]
  /\ UNCHANGED <<client, retryCount, nextClient, awaited, tries, retries, result, closing>>

\* Line 37 rejects: control goes to the catch block.
ConnectReject(c) ==
  /\ pc[c] = "connecting"
  /\ Catch(c)
  /\ UNCHANGED <<client, db, isConnected, nextClient, awaited, tries, result, closing>>

\* Lines 43-48: the ping resolved; return this.db.
PingResolve(c) ==
  /\ pc[c] = "pinging"
  /\ pc' = [pc EXCEPT ![c] = "returned"]
  /\ result' = [result EXCEPT ![c] = db]
  /\ UNCHANGED <<adapterVars, awaited, tries, retries, closing>>

\* Line 43 rejects: control goes to the catch block.
PingReject(c) ==
  /\ pc[c] = "pinging"
  /\ Catch(c)
  /\ UNCHANGED <<client, db, isConnected, nextClient, awaited, tries, result, closing>>

\* Lines 56-57: the 2 second timer fired; return this.connect().
RetryWake(c) ==
  /\ pc[c] = "sleeping"
  /\ EnterConnect(c, FALSE)

\* The caller takes the handle or the error; its next call starts afresh.
Finish(c) ==
  /\ pc[c] \in {"returned", "thrown"}
  /\ pc' = [pc EXCEPT ![c] = "idle"]
  /\ awaited' = [awaited EXCEPT ![c] = 0]
  /\ tries' = [tries EXCEPT ![c] = 0]
  /\ retries' = [retries EXCEPT ![c] = 0]
  /\ result' = [result EXCEPT ![c] = 0]
  /\ UNCHANGED <<adapterVars, closing>>

(***************************************************************************)
(* Database.disconnect().                                                  *)
(***************************************************************************)
\* Lines 66-67: if (this.client) await this.client.close()
DisconnectBegin ==
  /\ ~closing
  /\ client # 0
  /\ closing' = TRUE
  /\ UNCHANGED <<adapterVars, pc, awaited, tries, retries, result>>

\* Line 68: this.isConnected = false
DisconnectEnd ==
  /\ closing
  /\ closing' = FALSE
  /\ isConnected' = FALSE
  /\ UNCHANGED <<client, db, retryCount, nextClient, pc, awaited, tries, retries, result>>

\* Lines 71-73: close() rejected; the error is logged, the flag is kept.
DisconnectFail ==
  /\ closing
  /\ closing' = FALSE
  /\ UNCHANGED <<adapterVars, pc, awaited, tries, retries, result>>

\* The process runs server.js with the singleton `database`;
\* simple-server.js is not running.
InitAdapter ==
  /\ ConstructorState
  /\ CallsIdle
  /\ store = "untracked"
  /\ StoreEmpty
  /\ dbClient = "notRunning"
  /\ last = NoRequest

\* The adapter's own steps touch neither the collections nor a request.
AdapterOnly == UNCHANGED <<storeVars, homeworkVars, last, store>>

NextAdapter ==
  \/ \E c \in Callers : Call(c) /\ AdapterOnly
  \/ \E c \in Callers : ConnectResolve(c) /\ AdapterOnly
  \/ \E c \in Callers : ConnectReject(c) /\ AdapterOnly
  \/ \E c \in Callers : PingResolve(c) /\ AdapterOnly
  \/ \E c \in Callers : PingReject(c) /\ AdapterOnly
  \/ \E c \in Callers : RetryWake(c) /\ AdapterOnly
  \/ \E c \in Callers : Finish(c) /\ AdapterOnly
  \/ DisconnectBegin /\ AdapterOnly
  \/ DisconnectEnd /\ AdapterOnly
  \/ DisconnectFail /\ AdapterOnly

SpecAdapter == InitAdapter /\ [][NextAdapter]_vars

(***************************************************************************)
(* The adapter through an outage of the store.  The store is up or down;   *)
(* client.connect() and the ping resolve while it can be reached and       *)
(* reject while it cannot.  Once restored it stays up.  disconnect() has   *)
(* no caller in the program and takes no part.                             *)
(***************************************************************************)
Reachable == store \in {"up", "restored"}

\* The client.connect() calls the calls under way can still make before the
\* store is restored: the retries left in the shared counter and the
\* retries already counted whose 2 second wait has not ended.
PendingRetries ==
  (maxRetries - retryCount) + Cardinality({c \in Callers : pc[c] = "sleeping"})

\* A fresh call during the outage is taken up while the clients of the
\* outage suffice for it and for the retries pending.
FreshCallFits ==
  \/ store = "restored"
  \/ isConnected
  \/ nextClient + 1 + PendingRetries <= MaxOutageClients

\* ensureDatabase of a request, or the delayed connect of app.listen
OutageCall(c) == Call(c) /\ FreshCallFits /\ AdapterOnly

\* The reconnection check that gives up once the retries are used up.
ReconnectionCheckUntilExhausted ==
  /\ retryCount < maxRetries
  /\ Call("timer")
  /\ FreshCallFits
  /\ AdapterOnly

\* Lines 92-101: the callback of setInterval, every 30 seconds.
ReconnectionCheck ==
  /\ Call("timer")
  /\ FreshCallFits
  /\ AdapterOnly

\* The promise a call awaits settles, or its retry wait ends, or its caller
\* takes the outcome.
Settle(c) ==
  \/ ConnectResolve(c) /\ Reachable /\ AdapterOnly
  \/ ConnectReject(c) /\ ~Reachable /\ AdapterOnly
  \/ PingResolve(c) /\ Reachable /\ AdapterOnly
  \/ PingReject(c) /\ ~Reachable /\ AdapterOnly
  \/ RetryWake(c) /\ AdapterOnly
  \/ Finish(c) /\ AdapterOnly

StoreStays == UNCHANGED <<adapterVars, callVars, storeVars, homeworkVars, last>>

\* the store goes down
GoDown ==
  /\ store = "up"
  /\ store' = "down"
  /\ StoreStays

\* the store comes back and stays
Restore ==
  /\ store = "down"
  /\ store' = "restored"
  /\ StoreStays

InitOutage ==
  /\ ConstructorState
  /\ pc = [c \in Callers |-> "idle"]
  /\ awaited = [c \in Callers |-> 0]
  /\ tries = [c \in Callers |-> 0]
  /\ retries = [c \in Callers |-> 0]
  /\ result = [c \in Callers |-> 0]
  /\ closing = FALSE
  /\ StoreEmpty
  /\ dbClient = "notRunning"
  /\ last = NoRequest
  /\ store = "up"

NextOutage ==
  \/ \E c \in Callers \ {"timer"} : OutageCall(c)
  \/ ReconnectionCheck
  \/ \E c \in Callers : Settle(c)
  \/ GoDown
  \/ Restore

\* The event loop runs every callback that is due: a settled promise
\* resumes its call, a timer that ran out fires, and the interval of the
\* reconnection check comes round again.  Requests need not arrive.
FairOutage ==
  /\ \A c \in Callers : WF_vars(Settle(c))
  /\ WF_vars(ReconnectionCheck)

SpecOutage == InitOutage /\ [][NextOutage]_vars /\ FairOutage

(***************************************************************************)
(* ensureDatabase: `await database.connect()` run to completion, as it     *)
(* runs when no other connect() call is in flight.                         *)
(***************************************************************************)
\* What one attempt of lines 26-43 meets.
AttemptOutcomes == {"ok", "connectFails", "pingFails"}
\* What the attempts of one connect() call meet: j failed client connects,
\* then the outcome x (the attempts after a success are never made).
OutcomeSeqs ==
  { [i \in 1..(maxRetries + 1) |->
       IF i <= j THEN "connectFails" ELSE IF i = j + 1 THEN x ELSE "ok"] :
    j \in 0..(maxRetries + 1), x \in AttemptOutcomes }

\* The fields of the singleton `database`.
Adapter ==
  [client |-> client, db |-> db, isConnected |-> isConnected,
   retryCount |-> retryCount, nextClient |-> nextClient]

\* connect() on the adapter fields a, its i-th attempt meeting outs[i]; n
\* counts the attempts made.  Yields the fields afterwards and whether the
\* call returned (ok) or threw.
RECURSIVE ConnectRun(_, _, _, _)
ConnectRun(a, outs, i, n) ==
  IF a.isConnected
  THEN [a |-> a, ok |-> TRUE, attempts |-> n]
  ELSE LET b == [a EXCEPT !.client = a.nextClient + 1,
                          !.nextClient = a.nextClient + 1]
           c == IF outs[i] = "connectFails"
                THEN b
                ELSE [b EXCEPT !.db = DbOf(b.client), !.isConnected = TRUE]
       IN IF outs[i] = "ok"
          THEN [a |-> c, ok |-> TRUE, attempts |-> n + 1]
          ELSE IF c.retryCount < maxRetries
               THEN ConnectRun([c EXCEPT !.retryCount = c.retryCount + 1],
                               outs, i + 1, n + 1)
               ELSE [a |-> c, ok |-> FALSE, attempts |-> n + 1]

\* routes.js ensureDatabase: next() when connect() returned, 503 when it threw
EnsureDatabase(outs) == ConnectRun(Adapter, outs, 1, 0)

\* What the store does to the attempts of a request's connect(): it is
\* reachable, it is unreachable throughout, or it accepts the client and
\* fails the first ping.  One sequence when connect() will not attempt.
Outcomes ==
  IF isConnected
  THEN {[i \in 1..(maxRetries + 1) |-> "ok"]}
  ELSE {outs \in OutcomeSeqs :
          \/ outs[1] = "ok"
          \/ \A i \in 1..(maxRetries + 1) : outs[i] = "connectFails"
          \/ outs[1] = "pingFails"}

SetAdapter(a) ==
  /\ a.nextClient <= MaxHandlerClients
  /\ client' = a.client
  /\ db' = a.db
  /\ isConnected' = a.isConnected
  /\ retryCount' = a.retryCount
  /\ nextClient' = a.nextClient

\* Database.getCollection(name): throws when this.db is not set
GetCollectionThrows(a) == a.db = 0

\* database.donations()
donationsThrows(a) == GetCollectionThrows(a)

\* database.logs(): the accessor of the operation-log collection
logsThrows(a) == GetCollectionThrows(a)

\* The request as `last` records it before the chain runs.
Request(kind) == [NoRequest EXCEPT !.kind = kind]

(***************************************************************************)
(* POST /api/donations                                                     *)
(***************************************************************************)
\* the validData filter without its two conditions on item.project
IsValidDonationNameOnly(item) ==
  /\ item # Null
  /\ Truthy(item.name)
  /\ IsString(item.name)

\* the validData filter
IsValidDonation(item) ==
  /\ item # Null
  /\ Truthy(item.name)
  /\ Truthy(item.project)
  /\ IsString(item.name)
  /\ IsString(item.project)

\* The entries a client puts into `data`: a valid one, and one invalid one
\* for each way of failing the filter.
ValidItem == [name |-> Str("A"), project |-> Str("P"), localId |-> Undef]
InvalidItems ==
  { Null,
    [name |-> Undef, project |-> Str("P"), localId |-> Undef],
    [name |-> Num(7), project |-> Str("P"), localId |-> Undef],
    [name |-> Str("A"), project |-> Str(""), localId |-> Undef],
    [name |-> Str("A"), project |-> Num(7), localId |-> Undef] }

\* a valid entry whose localId the client chose: the string that is the
\* serverId of the first record ever stored
ValidItemWithLocalId == [ValidItem EXCEPT !.localId = Str(Oid(1))]

\* `data` of the request body: missing, not an array, or an array of up to
\* MaxBatch entries whose invalid entries are copies of one invalid entry
NotArray == [t |-> "object"]
Array(items) == [t |-> "array", items |-> items]
DataValues ==
  {Undef, NotArray}
  \cup { Array(items) :
           items \in UNION { [1..k -> {ValidItem, x}] :
                               k \in 0..MaxBatch,
                               x \in InvalidItems \cup {ValidItemWithLocalId} } }

\* !data || !Array.isArray(data); an array, even an empty one, is truthy
IsArray(data) == data.t = "array"

\* `batch_${Date.now()}_${Math.random()...}`: what one evaluation may yield
GeneratedBatchIds == {Str("batch_1"), Str("batch_2")}

\* donationsWithMetadata: the i-th valid entry with its metadata; gen[i] is
\* the batch id generated for it, oid the ObjectIds generated so far
DonationWithMetadata(item, i, m, batchId, gen, oid) ==
  [_id |-> Oid(oid + m + i),
   name |-> item.name,
   project |-> item.project,
   localId |-> OrElse(item.localId, Str("local_" \o ToString(oid + i))),
   batchId |-> OrElse(batchId, gen[i]),
   serverId |-> Oid(oid + i)]

\* an operation-log document, known by its type
LogEntry(type, count) == [type |-> type]

\* What the handler does once ensureDatabase called next().
SubmitBody(a, req) ==
  \E data \in DataValues :
    IF donationsThrows(a)
    THEN /\ last' = [req EXCEPT !.status = 500]
         /\ UNCHANGED storeVars
    ELSE IF ~IsArray(data)
    THEN /\ last' = [req EXCEPT !.status = 400]
         /\ UNCHANGED storeVars
    ELSE IF Len(SelectSeq(data.items, IsValidDonation)) = 0
    THEN /\ last' = [req EXCEPT !.status = 400, !.n = Len(data.items)]
         /\ UNCHANGED storeVars
    ELSE
      /\ nextOid + 2 * Len(SelectSeq(data.items, IsValidDonation)) <= MaxOid
      /\ \E batchId \in {Undef, Str("B1")} :
         \E gen \in [1..Len(SelectSeq(data.items, IsValidDonation)) ->
                       IF Truthy(batchId) THEN {Str("batch_1")} ELSE GeneratedBatchIds] :
         \E insert \in {"ok", "duplicate", "error"} :
           LET n == Len(data.items)
               validData == SelectSeq(data.items, IsValidDonation)
               m == Len(validData)
               docs == [i \in 1..m |->
                          DonationWithMetadata(validData[i], i, m, batchId, gen, nextOid)]
               seen == [req EXCEPT !.n = n, !.valid = m, !.storeOps = 1]
           IN
           /\ nextOid' = nextOid + 2 * m
           /\ IF insert # "ok"
              THEN \* insertMany throws after a prefix of the documents went in
                   \E j \in 0..(m - 1) :
                     /\ donations' = donations \cup {docs[i] : i \in 1..j}
                     /\ logs' = logs
                     /\ last' = [seen EXCEPT !.primary = "failed",
                                   !.status = IF insert = "duplicate" THEN 409 ELSE 500]
              ELSE
                /\ donations' = donations \cup {docs[i] : i \in 1..m}
                /\ \E logWrite \in {"ok", "fails"} :
                   IF logsThrows(a) \/ logWrite = "fails"
                   THEN \* the awaited log write throws into the catch block
                        /\ logs' = logs
                        /\ last' = [seen EXCEPT !.primary = "ok", !.log = "failed",
                                      !.storeOps = 2, !.status = 500]
                   ELSE /\ logs' = Append(logs, LogEntry("donation_submit", m))
                        /\ last' = [seen EXCEPT
                                      !.primary = "ok", !.log = "ok", !.storeOps = 2,
                                      !.status = 200,
                                      !.submittedCount = m,
                                      !.failedCount = n - m,
                                      !.batchId = docs[1].batchId,
                                      !.insertedIds = {docs[i]._id : i \in 1..m},
                                      !.warning = (n > m)]

\* router.post('/api/donations', ensureDatabase, handler)
SubmitDonations ==
  \E outs \in Outcomes :
    LET r == EnsureDatabase(outs)
        req == [Request("submit") EXCEPT !.attempts = r.attempts]
    IN
    /\ Len(logs) < MaxLogs
    /\ SetAdapter(r.a)
    /\ UNCHANGED <<callVars, store, homeworkVars>>
    /\ IF ~r.ok
       THEN \* ensureDatabase answers 503
            /\ last' = [req EXCEPT !.status = 503]
            /\ UNCHANGED storeVars
       ELSE SubmitBody(r.a, [req EXCEPT !.connected = TRUE])

(***************************************************************************)
(* The administrator endpoints: ensureDatabase, checkAdminAuth, handler.   *)
(***************************************************************************)
\* process.env.ADMIN_PASSWORD || 'admin123'
expectedPassword == Str("admin123")

\* req.query.adminPassword and req.body.adminPassword as clients send them
QueryPasswords == {Undef, Str("guess"), Str("admin123")}
BodyPasswords == {Undef, Str("admin123")}

\* checkAdminAuth: next() exactly when the password sent is the expected one
checkAdminAuth(adminPassword) == adminPassword = expectedPassword

\* The ids a client may put into the path: those of stored documents, an
\* ObjectId string of no document, and a plain string of no document.
IdParams ==
  {d._id : d \in donations} \cup {d.serverId : d \in donations}
  \cup {d.localId.s : d \in donations} \cup {Oid(MaxOid + 1), "nosuch"}

\* { $or: [{ localId: id }, { serverId: id }] }
MatchesLocalOrServerId(d, id) == d.localId = Str(id) \/ d.serverId = id

\* router.delete('/api/donations/:id') after the middleware
DeleteOneBody(a, req) ==
  \E id \in IdParams, fail \in {"none", "byId", "byKey", "log"} :
    LET seen == [req EXCEPT !.id = id, !.storeOps = 1,
                            !.swallowed = (ObjectIdIsValid(id) /\ fail = "byId")]
        \* lines 811-818: the _id stage; what it throws is swallowed
        byId == IF ObjectIdIsValid(id) /\ fail # "byId"
                THEN {d \in donations : d._id = id}
                ELSE {}
        stage2 == byId = {}
        byKey == {d \in donations : MatchesLocalOrServerId(d, id)}
    IN
    IF donationsThrows(a)
    THEN /\ last' = [req EXCEPT !.status = 500]
         /\ UNCHANGED storeVars
    ELSE IF stage2 /\ fail = "byKey"
    THEN \* findOne or deleteOne of lines 822-835 throws
         /\ last' = [seen EXCEPT !.status = 500, !.primary = "failed"]
         /\ UNCHANGED storeVars
    ELSE IF stage2 /\ byKey = {}
    THEN /\ last' = [seen EXCEPT !.status = 404]
         /\ UNCHANGED storeVars
    ELSE
      \E d \in IF stage2 THEN byKey ELSE byId :
        /\ donations' = donations \ {d}
        /\ UNCHANGED nextOid
        /\ IF logsThrows(a) \/ fail = "log"
           THEN /\ logs' = logs
                /\ last' = [seen EXCEPT !.status = 500, !.primary = "ok",
                              !.log = "failed", !.storeOps = 2]
           ELSE /\ logs' = Append(logs, LogEntry("donation_delete", 1))
                /\ last' = [seen EXCEPT !.status = 200, !.primary = "ok",
                              !.log = "ok", !.storeOps = 2]

\* router.delete('/api/donations/batch/:batchId') after the middleware
DeleteBatchBody(a, req) ==
  \E batchId \in {d.batchId.s : d \in donations} \cup {"nosuch"},
     fail \in {"none", "primary", "log"} :
    LET seen == [req EXCEPT !.id = batchId, !.storeOps = 1]
        itemsToDelete == {d \in donations : d.batchId = Str(batchId)}
    IN
    IF donationsThrows(a)
    THEN /\ last' = [req EXCEPT !.status = 500]
         /\ UNCHANGED storeVars
    ELSE IF fail = "primary"
    THEN \* find or deleteMany throws
         /\ last' = [seen EXCEPT !.status = 500, !.primary = "failed"]
         /\ UNCHANGED storeVars
    ELSE IF itemsToDelete = {}
    THEN /\ last' = [seen EXCEPT !.status = 404]
         /\ UNCHANGED storeVars
    ELSE
      /\ donations' = donations \ itemsToDelete
      /\ UNCHANGED nextOid
      /\ IF logsThrows(a) \/ fail = "log"
         THEN /\ logs' = logs
              /\ last' = [seen EXCEPT !.status = 500, !.primary = "ok",
                            !.log = "failed", !.storeOps = 2]
         ELSE /\ logs' = Append(logs, LogEntry("batch_delete", Cardinality(itemsToDelete)))
              /\ last' = [seen EXCEPT !.status = 200, !.primary = "ok",
                            !.log = "ok", !.storeOps = 2]

\* a clear-all that empties the operation log along with the donations
ClearAllBodyWithLogs(a, req) ==
  \E fail \in {"none", "primary", "log"} :
    LET seen == [req EXCEPT !.storeOps = 1]
    IN
    IF donationsThrows(a) \/ logsThrows(a)
    THEN /\ last' = [req EXCEPT !.status = 500]
         /\ UNCHANGED storeVars
    ELSE IF fail = "primary"
    THEN /\ last' = [seen EXCEPT !.status = 500, !.primary = "failed"]
         /\ UNCHANGED storeVars
    ELSE
      /\ donations' = {}
      /\ UNCHANGED nextOid
      /\ IF fail = "log"
         THEN /\ logs' = <<>>
              /\ last' = [seen EXCEPT !.status = 500, !.primary = "ok",
                            !.log = "failed", !.storeOps = 2]
         ELSE /\ logs' = <<LogEntry("clear_all_data", Cardinality(donations))>>
              /\ last' = [seen EXCEPT !.status = 200, !.primary = "ok",
                            !.log = "ok", !.storeOps = 2]

\* router.delete('/api/donations') after the middleware
ClearAllBody(a, req) ==
  \E fail \in {"none", "primary", "log"} :
    LET seen == [req EXCEPT !.storeOps = 1]
    IN
    IF donationsThrows(a) \/ logsThrows(a)
    THEN /\ last' = [req EXCEPT !.status = 500]
         /\ UNCHANGED storeVars
    ELSE IF fail = "primary"
    THEN \* aggregate or deleteMany throws
         /\ last' = [seen EXCEPT !.status = 500, !.primary = "failed"]
         /\ UNCHANGED storeVars
    ELSE
      /\ donations' = {}
      /\ UNCHANGED nextOid
      /\ IF fail = "log"
         THEN /\ logs' = logs
              /\ last' = [seen EXCEPT !.status = 500, !.primary = "ok",
                            !.log = "failed", !.storeOps = 2]
         ELSE /\ logs' = Append(logs, LogEntry("clear_all_data", Cardinality(donations)))
              /\ last' = [seen EXCEPT !.status = 200, !.primary = "ok",
                            !.log = "ok", !.storeOps = 2]

\* router.get('/api/logs') after the middleware: it reads and answers
GetLogsBody(a, req) ==
  \E fail \in {"none", "primary"} :
    /\ UNCHANGED storeVars
    /\ IF logsThrows(a)
       THEN last' = [req EXCEPT !.status = 500]
       ELSE IF fail = "primary"
       THEN last' = [req EXCEPT !.status = 500, !.storeOps = 1, !.primary = "failed"]
       ELSE last' = [req EXCEPT !.status = 200, !.storeOps = 1, !.primary = "ok"]

\* the handler each administrator route ends with
AdminHandler(kind, a, req) ==
  CASE kind = "deleteOne" -> DeleteOneBody(a, req)
    [] kind = "deleteBatch" -> DeleteBatchBody(a, req)
    [] kind = "clearAll" -> ClearAllBody(a, req)
    [] kind = "getLogs" -> GetLogsBody(a, req)

\* The chain of an administrator endpoint: ensureDatabase, then
\* checkAdminAuth, then the handler of the endpoint.
AdminChain(kind) ==
  \E outs \in Outcomes, q \in QueryPasswords :
  \E b \in IF Truthy(q) THEN {Undef} ELSE BodyPasswords :
    LET r == EnsureDatabase(outs)
        req == [Request(kind) EXCEPT !.attempts = r.attempts,
                                     !.adminPassword = OrElse(q, b)]
    IN
    /\ Len(logs) < MaxLogs
    /\ SetAdapter(r.a)
    /\ UNCHANGED <<callVars, store, homeworkVars>>
    /\ IF ~r.ok
       THEN /\ last' = [req EXCEPT !.status = 503]
            /\ UNCHANGED storeVars
       ELSE IF ~checkAdminAuth(OrElse(q, b))
       THEN /\ last' = [req EXCEPT !.status = 401, !.connected = TRUE]
            /\ UNCHANGED storeVars
       ELSE AdminHandler(kind, r.a, [req EXCEPT !.connected = TRUE])

DeleteOneDonation == AdminChain("deleteOne")
DeleteDonationBatch == AdminChain("deleteBatch")
ClearAllDonations == AdminChain("clearAll")
GetLogs == AdminChain("getLogs")

(***************************************************************************)
(* The export endpoints: ensureDatabase, then the handler.                 *)
(***************************************************************************)
\* req.query.project as clients send it: none, that of the stored
\* donations, and one of no donation
ProjectFilters == {Undef, Str("P"), Str("Q")}

\* find(query): the donations the filter selects
Selected(project) ==
  IF Truthy(OrElse(project, Str("")))
  THEN {d \in donations : d.project = project}
  ELSE donations

\* router.get('/api/export/csv') and router.get('/api/export/json') after
\* ensureDatabase: find, build the export, write the log entry, send
ExportBody(a, req, type) ==
  \E project \in ProjectFilters, fail \in {"none", "primary", "log"} :
    LET seen == [req EXCEPT !.storeOps = 1]
    IN
    /\ UNCHANGED <<donations, nextOid>>
    /\ IF donationsThrows(a)
       THEN /\ last' = [req EXCEPT !.status = 500]
            /\ UNCHANGED logs
       ELSE IF fail = "primary"
       THEN \* find(query).sort().toArray() throws
            /\ last' = [seen EXCEPT !.status = 500, !.primary = "failed"]
            /\ UNCHANGED logs
       ELSE IF logsThrows(a) \/ fail = "log"
       THEN \* the awaited log write throws before res.send
            /\ logs' = logs
            /\ last' = [seen EXCEPT !.status = 500, !.primary = "ok",
                          !.log = "failed", !.storeOps = 2,
                          !.n = Cardinality(Selected(project))]
       ELSE /\ logs' = Append(logs, LogEntry(type, Cardinality(Selected(project))))
            /\ last' = [seen EXCEPT !.status = 200, !.primary = "ok",
                          !.log = "ok", !.storeOps = 2,
                          !.n = Cardinality(Selected(project))]

\* The chain of an export endpoint
ExportChain(kind, type) ==
  \E outs \in Outcomes :
    LET r == EnsureDatabase(outs)
        req == [Request(kind) EXCEPT !.attempts = r.attempts]
    IN
    /\ Len(logs) < MaxLogs
    /\ SetAdapter(r.a)
    /\ UNCHANGED <<callVars, store, homeworkVars>>
    /\ IF ~r.ok
       THEN /\ last' = [req EXCEPT !.status = 503]
            /\ UNCHANGED storeVars
       ELSE ExportBody(r.a, [req EXCEPT !.connected = TRUE], type)

ExportCsv == ExportChain("exportCsv", "export_csv")
ExportJson == ExportChain("exportJson", "export_json")

\* The handlers leave the connect() calls of the other callers alone.
InitDonations == InitAdapter

NextDonations ==
  \/ SubmitDonations
  \/ DeleteOneDonation
  \/ DeleteDonationBatch
  \/ ClearAllDonations
  \/ GetLogs

SpecDonations == InitDonations /\ [][NextDonations]_vars

\* The export endpoints, reading what the submissions stored.
NextExport ==
  \/ SubmitDonations
  \/ ExportCsv
  \/ ExportJson

SpecExport == InitDonations /\ [][NextExport]_vars

(***************************************************************************)
(* The statistics endpoint: ensureDatabase, then the handler.              *)
(***************************************************************************)
\* x.toFixed(1) of the quotient x = num / den, den > 0, as a string: the
\* sign, then the tenths nearest to the magnitude, a half going up.  For
\* the counts of the model the double x is nearer to the quotient than to
\* any half of a tenth the quotient is not on, and is the quotient when
\* the quotient is on one.
ToFixed1Truncating(num, den) ==
  LET mag == IF num < 0 THEN 0 - num ELSE num
      n == (mag * 10) \div den
  IN (IF num < 0 THEN "-" ELSE "")
       \o ToString(n \div 10) \o "." \o ToString(n % 10)

ToFixed1(num, den) ==
  LET mag == IF num < 0 THEN 0 - num ELSE num
      n == (mag * 20 + den) \div (2 * den)
  IN (IF num < 0 THEN "-" ELSE "")
       \o ToString(n \div 10) \o "." \o ToString(n % 10)

\* lines 546-551: growthRate of yesterdayCount and todayCount
GrowthRate(yesterdayCount, todayCount) ==
  IF yesterdayCount > 0
  THEN ToFixed1((todayCount - yesterdayCount) * 100, yesterdayCount)
  ELSE IF todayCount > 0 THEN "100.0" ELSE "0.0"

\* router.get('/api/stats') after ensureDatabase; the two aggregates count
\* yesterdayCount and todayCount donations
StatsBody(a, req) ==
  \E yesterdayCount \in 0..MaxCount, todayCount \in 0..MaxCount,
     fail \in {"none", "primary"} :
    /\ UNCHANGED storeVars
    /\ IF donationsThrows(a)
       THEN /\ fail = "none"
            /\ yesterdayCount = 0 /\ todayCount = 0
            /\ last' = [req EXCEPT !.status = 500]
       ELSE IF fail = "primary"
       THEN \* an aggregate or the find throws
            /\ yesterdayCount = 0 /\ todayCount = 0
            /\ last' = [req EXCEPT !.status = 500, !.storeOps = 1,
                                     !.primary = "failed"]
       ELSE last' = [req EXCEPT !.status = 200, !.storeOps = 1,
                       !.primary = "ok",
                       !.yesterdayCount = yesterdayCount,
                       !.todayCount = todayCount,
                       !.growthRate =
                          GrowthRate(yesterdayCount, todayCount) \o "%"]

\* router.get('/api/stats', ensureDatabase, handler)
GetStats ==
  \E outs \in Outcomes :
    LET r == EnsureDatabase(outs)
        req == [Request("stats") EXCEPT !.attempts = r.attempts]
    IN
    /\ SetAdapter(r.a)
    /\ UNCHANGED <<callVars, store, homeworkVars>>
    /\ IF ~r.ok
       THEN /\ last' = [req EXCEPT !.status = 503]
            /\ UNCHANGED storeVars
       ELSE StatsBody(r.a, [req EXCEPT !.connected = TRUE])

NextStats == GetStats

SpecStats == InitDonations /\ [][NextStats]_vars

(***************************************************************************)
(* The rows of the CSV exports.  A text is the sequence of its characters. *)
(***************************************************************************)
Quote == "\""
Comma == ","

\* the characters a text field is made of
TextChars == {"A", Quote, Comma}

\* the texts of up to n characters
RECURSIVE Texts(_)
Texts(n) ==
  IF n = 0
  THEN {<<>>}
  ELSE Texts(n - 1)
         \cup {Append(t, c) : t \in {x \in Texts(n - 1) : Len(x) = n - 1},
                              c \in TextChars}

\* escapeCSV(text) of a string: text.replace(/"/g, '""')
RECURSIVE escapeCSV(_)
escapeCSV(text) ==
  IF text = <<>> THEN <<>>
  ELSE (IF Head(text) = Quote THEN <<Quote, Quote>> ELSE <<Head(text)>>)
         \o escapeCSV(Tail(text))

\* the characters of a string value, '' for a value that is no string
CharsOf(v) == IF IsString(v) /\ "cs" \in DOMAIN v THEN v.cs ELSE <<>>

\* row.join(','): the cells with commas between them
RECURSIVE Join(_)
Join(cells) ==
  IF cells = <<>> THEN <<>>
  ELSE IF Len(cells) = 1 THEN cells[1]
  ELSE cells[1] \o <<Comma>> \o Join(Tail(cells))

\* lines 661-680: the row of a donation, of its cells the number, the
\* name and the project; the other text cells are built as these are
DonationRow(item, index) ==
  Join(<< <<ToString(index)>>,
          <<Quote>> \o escapeCSV(CharsOf(OrElse(item.name, Chars(<<>>)))) \o <<Quote>>,
          <<Quote>> \o escapeCSV(CharsOf(OrElse(item.project, Chars(<<>>)))) \o <<Quote>> >>)

\* lines 1466-1491: the row of a practice record, of its cells the date,
\* the name and the remark: `"${item.name || ''}"`
HomeworkRow(item) ==
  Join(<< <<Quote>> \o CharsOf(OrElse(item.date, Chars(<<>>))) \o <<Quote>>,
          <<Quote>> \o CharsOf(OrElse(item.name, Chars(<<>>))) \o <<Quote>>,
          <<Quote>> \o CharsOf(OrElse(item.remark, Chars(<<>>))) \o <<Quote>> >>)

\* the handlers of the two CSV exports after ensureDatabase, as far as the
\* rows go; each collection holds one record
CsvBody(a, req) ==
  \E fail \in {"none", "primary", "log"} :
    /\ UNCHANGED <<donations, nextOid, homework, homeworkLogs, clock>>
    /\ IF GetCollectionThrows(a)
       THEN /\ fail = "none"
            /\ last' = [req EXCEPT !.status = 500]
            /\ UNCHANGED logs
       ELSE IF fail = "primary"
       THEN \* find().sort().toArray() throws
            /\ last' = [req EXCEPT !.status = 500, !.storeOps = 1,
                                     !.primary = "failed"]
            /\ UNCHANGED logs
       ELSE IF req.kind = "homeworkCsv"
       THEN /\ fail = "none"
            /\ UNCHANGED logs
            /\ last' = [req EXCEPT !.status = 200, !.storeOps = 1,
                          !.primary = "ok",
                          !.csv = {HomeworkRow(item) : item \in homework}]
       ELSE IF fail = "log"
       THEN /\ UNCHANGED logs
            /\ last' = [req EXCEPT !.status = 500, !.storeOps = 2,
                          !.primary = "ok", !.log = "failed"]
       ELSE /\ logs' = Append(logs, LogEntry("export_csv", Cardinality(donations)))
            /\ last' = [req EXCEPT !.status = 200, !.storeOps = 2,
                          !.primary = "ok", !.log = "ok",
                          !.csv = {DonationRow(item, 1) : item \in donations}]

\* ensureDatabase, then the handler
CsvChain(kind) ==
  \E outs \in Outcomes :
    LET r == EnsureDatabase(outs)
        req == Request(kind)
    IN
    /\ Len(logs) < MaxLogs
    /\ SetAdapter(r.a)
    /\ UNCHANGED <<callVars, store, dbClient>>
    /\ IF ~r.ok
       THEN /\ last' = [req EXCEPT !.status = 503]
            /\ UNCHANGED <<storeVars, homework, homeworkLogs, clock>>
       ELSE CsvBody(r.a, [req EXCEPT !.connected = TRUE])

\* router.get('/api/export/csv', ensureDatabase, handler)
ExportDonationRows == CsvChain("donationCsv")

\* router.get('/export/csv', ensureDatabase, handler) of the practice records
ExportHomeworkRows == CsvChain("homeworkCsv")

\* Each collection holds one record, its name a text of the model.
InitCsv ==
  /\ ConstructorState
  /\ CallsIdle
  /\ store = "untracked"
  /\ \E name \in Texts(MaxText) \ {<<>>} :
       /\ donations = {[_id |-> Oid(1), name |-> Chars(name),
                        project |-> Chars(<<"A">>)]}
       /\ homework = {[_id |-> Oid(1), date |-> Chars(<<"A">>),
                       name |-> Chars(name), remark |-> Undef]}
  /\ logs = <<>>
  /\ nextOid = 1
  /\ homeworkLogs = <<>>
  /\ clock = 1
  /\ dbClient = "notRunning"
  /\ last = NoRequest

NextCsv ==
  \/ ExportDonationRows
  \/ ExportHomeworkRows

SpecCsv == InitCsv /\ [][NextCsv]_vars

(***************************************************************************)
(* The donation list, read by read.  Promise.all sends find,               *)
(* countDocuments and aggregate to the store as three commands; the store  *)
(* serves them in any order, and the writes of other requests may fall     *)
(* between them.                                                           *)
(***************************************************************************)
ListReads == {"find", "countDocuments", "aggregate"}

\* req.query.limit as clients send it: one record a page, or the default
ListLimits == {1, 50}

\* `let projectStats = {}`: the names a plain object inherits from
\* Object.prototype.  For these `projectStats[name]` is truthy though
\* projectStats has no entry of its own, so that the branch creating the
\* entry is skipped and `.count++` lands on the inherited value.
ObjectPrototypeNames == {"constructor", "__proto__", "toString", "valueOf",
                         "hasOwnProperty", "isPrototypeOf",
                         "propertyIsEnumerable", "toLocaleString",
                         "__defineGetter__", "__defineSetter__",
                         "__lookupGetter__", "__lookupSetter__"}

\* the project names clients submit, and a project the filter rejects
ProjectInputs == {Str("P"), Str("Q"), Str("constructor"), Str("")}

RECURSIVE SumOf(_)
SumOf(f) ==
  IF DOMAIN f = {} THEN 0
  ELSE LET k == CHOOSE x \in DOMAIN f : TRUE
       IN f[k] + SumOf([x \in DOMAIN f \ {k} |-> f[x]])

Min(a, b) == IF a <= b THEN a ELSE b

\* lines 300-320: $match, then $group with count: {$sum: 1} and byProject:
\* {$push: {project}}; here the pushed projects with their multiplicities
Aggregate(docs) ==
  [count |-> Cardinality(docs),
   byProject |-> [p \in {d.project : d \in docs} |->
                    Cardinality({d \in docs : d.project = p})]]

\* lines 335-351 and 371-374: projectStats filled by forEach, then
\* Object.entries(projectStats): the entries of its own
ProjectStats(pushed) ==
  [p \in {q \in DOMAIN pushed : Truthy(q) /\ q.s \notin ObjectPrototypeNames}
     |-> pushed[p]]

\* ensureDatabase, then lines 236-287: the query is built and the three
\* reads are sent
ListBegin ==
  \E outs \in Outcomes, limit \in ListLimits :
    LET r == EnsureDatabase(outs)
        req == [Request("list") EXCEPT !.limit = limit]
    IN
    /\ ~(last.kind = "list" /\ last.status = 0)
    /\ SetAdapter(r.a)
    /\ UNCHANGED <<callVars, store, storeVars, homeworkVars>>
    /\ IF ~r.ok
       THEN last' = [req EXCEPT !.status = 503]
       ELSE IF donationsThrows(r.a)
       THEN last' = [req EXCEPT !.status = 500, !.connected = TRUE]
       ELSE last' = [req EXCEPT !.connected = TRUE, !.pending = ListReads]

\* the store serves one of the three reads from the collection as it is
ListRead ==
  \E read \in last.pending :
    /\ last.kind = "list"
    /\ last.status = 0
    /\ UNCHANGED <<adapterVars, callVars, store, storeVars, homeworkVars>>
    /\ last' =
         IF read = "find"
         THEN [last EXCEPT !.pending = @ \ {read},
                 !.pageLength = Min(last.limit, Cardinality(donations))]
         ELSE IF read = "countDocuments"
         THEN [last EXCEPT !.pending = @ \ {read},
                 !.totalCount = Cardinality(donations)]
         ELSE [last EXCEPT !.pending = @ \ {read},
                 !.statsResult = Aggregate(donations)]

\* one of the reads rejects: Promise.all rejects, the catch block answers
ListFail ==
  /\ last.kind = "list"
  /\ last.status = 0
  /\ last.pending # {}
  /\ UNCHANGED <<adapterVars, callVars, store, storeVars, homeworkVars>>
  /\ last' = [last EXCEPT !.status = 500, !.primary = "failed", !.pending = {}]

\* lines 324-385: the three results are in; the response is built
ListRespond ==
  /\ last.kind = "list"
  /\ last.status = 0
  /\ last.pending = {}
  /\ UNCHANGED <<adapterVars, callVars, store, storeVars, homeworkVars>>
  /\ last' = [last EXCEPT !.status = 200, !.primary = "ok",
                !.byProject = ProjectStats(last.statsResult.byProject)]

\* a write of another request fell within a list request in flight
Disturbed ==
  IF last.kind = "list" /\ last.status = 0
  THEN [last EXCEPT !.disturbed = TRUE]
  ELSE last

\* POST /api/donations of another client with one entry in `data`: the
\* validData filter, insertMany, the log write
ListSubmit ==
  \E project \in ProjectInputs :
    LET item == [name |-> Str("A"), project |-> project, localId |-> Undef]
        doc == DonationWithMetadata(item, 1, 1, Str("B1"), <<Str("batch_1")>>,
                                    nextOid)
    IN
    /\ Len(logs) < MaxLogs
    /\ UNCHANGED <<adapterVars, callVars, store, homeworkVars>>
    /\ IF ~IsValidDonation(item)
       THEN UNCHANGED <<storeVars, last>>
       ELSE /\ nextOid + 2 <= MaxOid
            /\ nextOid' = nextOid + 2
            /\ donations' = donations \cup {doc}
            /\ logs' = Append(logs, LogEntry("donation_submit", 1))
            /\ last' = Disturbed

\* DELETE /api/donations/:id of an administrator for a record stored:
\* deleteOne, the log write
ListDelete ==
  \E d \in donations :
    /\ Len(logs) < MaxLogs
    /\ UNCHANGED <<adapterVars, callVars, store, homeworkVars, nextOid>>
    /\ donations' = donations \ {d}
    /\ logs' = Append(logs, LogEntry("donation_delete", 1))
    /\ last' = Disturbed

NextList ==
  \/ ListBegin
  \/ ListRead
  \/ ListFail
  \/ ListRespond
  \/ ListSubmit
  \/ ListDelete

SpecList == InitDonations /\ [][NextList]_vars

(***************************************************************************)
(* The date range of the donation list and of the exports.  Instants are   *)
(* counted in quarter days from 00:00 UTC of day 0; the last instant of a  *)
(* day, 23:59:59.999, is its last quarter.                                 *)
(***************************************************************************)
QuartersPerDay == 4

\* The offsets of local time from UTC the process may run with, in quarter
\* days: UTC-6, UTC, UTC+6, UTC+12.
TimeZones == {-1, 0, 1, 2}

\* the calendar date clients ask for, and the instants of the day before
\* it, of the day itself and of the day after it
QueryDay == 1
RangeInstants == ((QueryDay - 1) * QuartersPerDay)..((QueryDay + 2) * QuartersPerDay - 1)

\* new Date('YYYY-MM-DD'): a date-only string is 00:00 UTC of that day
DateOf(day) == day * QuartersPerDay

\* d.setHours(23, 59, 59, 999): the last instant of the day the instant t
\* lies in by local time
EndOfLocalDay(t, tz) ==
  ((t + tz) \div QuartersPerDay) * QuartersPerDay + (QuartersPerDay - 1) - tz

\* lines 273-285 and 621-631: query.submittedAt of startDate and endDate
DateRange(startDate, endDate, tz) ==
  [gte |-> DateOf(startDate), lte |-> EndOfLocalDay(DateOf(endDate), tz)]

\* find(query): the donations the range selects
InRange(range) ==
  {d \in donations : range.gte <= d.submittedAt /\ d.submittedAt <= range.lte}

\* the handlers of the donation list and of the two exports after
\* ensureDatabase, asked for startDate = endDate = QueryDay
RangeBody(a, req) ==
  \E fail \in {"none", "primary", "log"} :
    LET found == InRange(DateRange(QueryDay, QueryDay, req.tz))
    IN
    /\ UNCHANGED <<donations, nextOid, homeworkVars>>
    /\ IF donationsThrows(a)
       THEN /\ fail = "none"
            /\ last' = [req EXCEPT !.status = 500]
            /\ UNCHANGED logs
       ELSE IF fail = "primary"
       THEN \* find, countDocuments or aggregate throws
            /\ last' = [req EXCEPT !.status = 500, !.storeOps = 1,
                                     !.primary = "failed"]
            /\ UNCHANGED logs
       ELSE IF req.kind = "listRange"
       THEN /\ fail = "none"
            /\ UNCHANGED logs
            /\ last' = [req EXCEPT !.status = 200, !.storeOps = 1,
                          !.primary = "ok", !.matched = found]
       ELSE IF logsThrows(a) \/ fail = "log"
       THEN /\ UNCHANGED logs
            /\ last' = [req EXCEPT !.status = 500, !.storeOps = 2,
                          !.primary = "ok", !.log = "failed"]
       ELSE /\ logs' = Append(logs, LogEntry("export", Cardinality(found)))
            /\ last' = [req EXCEPT !.status = 200, !.storeOps = 2,
                          !.primary = "ok", !.log = "ok", !.matched = found]

\* ensureDatabase, then the handler; the process keeps its time zone
RangeChain(kind) ==
  \E outs \in Outcomes :
    LET r == EnsureDatabase(outs)
        req == [Request(kind) EXCEPT !.tz = last.tz]
    IN
    /\ Len(logs) < MaxLogs
    /\ SetAdapter(r.a)
    /\ UNCHANGED <<callVars, store, homeworkVars>>
    /\ IF ~r.ok
       THEN /\ last' = [req EXCEPT !.status = 503]
            /\ UNCHANGED storeVars
       ELSE RangeBody(r.a, [req EXCEPT !.connected = TRUE])

\* router.get('/api/donations', ensureDatabase, handler)
ListDateRange == RangeChain("listRange")

\* router.get('/api/export/csv') and router.get('/api/export/json')
ExportDateRange == RangeChain("exportRange")

\* The process runs in one of the time zones; the collection holds
\* donations submitted around the day asked for.
InitRange ==
  /\ ConstructorState
  /\ CallsIdle
  /\ store = "untracked"
  /\ \E instants \in SUBSET RangeInstants :
       /\ Cardinality(instants) <= MaxRangeDocs
       /\ donations = {[_id |-> Oid(t), submittedAt |-> t] : t \in instants}
  /\ logs = <<>>
  /\ nextOid = 0
  /\ homework = {}
  /\ homeworkLogs = <<>>
  /\ clock = 0
  /\ dbClient = "notRunning"
  /\ \E tz \in TimeZones : last = [NoRequest EXCEPT !.tz = tz]

NextRange ==
  \/ ListDateRange
  \/ ExportDateRange

SpecRange == InitRange /\ [][NextRange]_vars

(***************************************************************************)
(* The breakdowns of the statistics endpoints.  Instants are counted in    *)
(* half days: instant t lies in calendar day t \div 2.                     *)
(***************************************************************************)
HalfDaysPerDay == 2

\* $dateToString: { format: '%Y-%m-%d', date: '$submittedAt' }: the
\* calendar day of an instant; days compare as their date strings do
DayOf(t) == t \div HalfDaysPerDay

\* How the documents of a collection share the values of a field: all one
\* value, three values in turn, each its own.
Spreads == {"one", "few", "each"}
Spread(spread, i) ==
  CASE spread = "one" -> 1
    [] spread = "few" -> (i % 3) + 1
    [] spread = "each" -> i

\* the instant of the latest submission
LatestSubmission == 80

\* the i-th donation of a collection whose submissions lie step half days
\* apart: what DonationWithMetadata keeps of project, payment, deviceId
\* and submittedAt.  The k-th project, payment status, device and name are
\* written k.
ReportDonation(i, spread, step) ==
  [_id |-> Oid(i),
   project |-> Spread(spread, i),
   payment |-> i % 2,
   deviceId |-> Spread(spread, i),
   submittedAt |-> LatestSubmission - step * (i - 1)]

\* the i-th practice record, with its name
ReportHomework(i, spread) ==
  [_id |-> Oid(i), name |-> Spread(spread, i)]

\* { $group: { _id: '$field', count: { $sum: 1 } } }
Group(docs, field) ==
  { [_id |-> k, count |-> Cardinality({d \in docs : d[field] = k})] :
      k \in {d[field] : d \in docs} }

\* the $group of the daily breakdown, by calendar day of submittedAt
DailyGroups(docs) ==
  { [_id |-> k, count |-> Cardinality({d \in docs : DayOf(d.submittedAt) = k})] :
      k \in {DayOf(d.submittedAt) : d \in docs} }

\* the least and the greatest of a set of numbers, 0 of the empty set
Least(ids) == IF ids = {} THEN 0 ELSE CHOOSE m \in ids : \A x \in ids : m <= x
Greatest(ids) == IF ids = {} THEN 0 ELSE CHOOSE m \in ids : \A x \in ids : m >= x

\* the members of ids from k up to hi, ascending or descending
RECURSIVE InOrder(_, _, _, _)
InOrder(ids, k, hi, tie) ==
  IF k > hi
  THEN <<>>
  ELSE LET rest == InOrder(ids, k + 1, hi, tie)
       IN IF k \notin ids THEN rest
          ELSE IF tie = "asc" THEN <<k>> \o rest ELSE Append(rest, k)

\* the groups of order whose count is c, then those of lower counts
RECURSIVE ByCountFrom(_, _, _, _)
ByCountFrom(groups, order, c, i) ==
  IF c = 0
  THEN <<>>
  ELSE IF i > Len(order)
  THEN ByCountFrom(groups, order, c - 1, 1)
  ELSE LET g == [_id |-> order[i], count |-> c]
       IN (IF g \in groups THEN <<g>> ELSE <<>>)
            \o ByCountFrom(groups, order, c, i + 1)

\* { $sort: { count: -1 } }: by descending count; the store leaves the
\* order of groups of one count open, tie gives it
SortByCountDesc(groups, tie) ==
  LET ids == {g._id : g \in groups}
  IN ByCountFrom(groups, InOrder(ids, Least(ids), Greatest(ids), tie),
                 Greatest({g.count : g \in groups}), 1)

\* { $sort: { _id: 1 } } of the daily breakdown
SortByIdAsc(groups) ==
  LET ids == {g._id : g \in groups}
      order == InOrder(ids, Least(ids), Greatest(ids), "asc")
  IN [i \in 1..Len(order) |->
        CHOOSE g \in groups : g._id = order[i]]

\* { $limit: n }
Limit(groups, n) ==
  SubSeq(groups, 1, IF Len(groups) < n THEN Len(groups) ELSE n)

\* lines 405-407 and 417-496: the aggregates of Promise.all that the
\* response passes on as overall, byProject, byPayment, daily, byDevice
StatsReport(tie, now) ==
  LET thirtyDaysAgo == now - WindowDays * HalfDaysPerDay
  IN
  [overall |-> [totalRecords |-> Cardinality(donations)],
   byProject |-> Limit(SortByCountDesc(Group(donations, "project"), tie),
                       ProjectLimit),
   byPayment |-> SortByCountDesc(Group(donations, "payment"), tie),
   daily |-> Limit(SortByIdAsc(DailyGroups(
                      {d \in donations : d.submittedAt >= thirtyDaysAgo})),
                   DailyLimit),
   byDevice |-> Limit(SortByCountDesc(Group(donations, "deviceId"), tie),
                      DeviceLimit)]

\* routes.js router.get('/stats'): countDocuments and the nameStats
\* aggregate
HomeworkStatsReport(tie) ==
  [totalRecords |-> Cardinality(homework),
   nameStats |-> SortByCountDesc(Group(homework, "name"), tie)]

\* the handlers of the two statistics routes after ensureDatabase, as far
\* as the breakdowns go
BreakdownBody(a, req) ==
  \E tie \in {"asc", "desc"}, now \in {LatestSubmission, LatestSubmission + 1},
     fail \in {"none", "primary"} :
    /\ UNCHANGED <<storeVars, homework, homeworkLogs, clock>>
    /\ IF GetCollectionThrows(a)
       THEN /\ fail = "none" /\ tie = "asc" /\ now = LatestSubmission
            /\ last' = [req EXCEPT !.status = 500]
       ELSE IF fail = "primary"
       THEN \* an aggregate throws
            /\ tie = "asc" /\ now = LatestSubmission
            /\ last' = [req EXCEPT !.status = 500, !.storeOps = 1,
                                     !.primary = "failed"]
       ELSE IF req.kind = "statsBreakdowns"
       THEN last' = [req EXCEPT !.status = 200, !.storeOps = 1,
                       !.primary = "ok", !.now = now,
                       !.report = StatsReport(tie, now)]
       ELSE /\ now = LatestSubmission
            /\ last' = [req EXCEPT !.status = 200, !.storeOps = 1,
                          !.primary = "ok",
                          !.report = HomeworkStatsReport(tie)]

\* ensureDatabase, then the handler
BreakdownChain(kind) ==
  \E outs \in Outcomes :
    LET r == EnsureDatabase(outs)
        req == Request(kind)
    IN
    /\ SetAdapter(r.a)
    /\ UNCHANGED <<callVars, store, dbClient>>
    /\ IF ~r.ok
       THEN /\ last' = [req EXCEPT !.status = 503]
            /\ UNCHANGED <<storeVars, homework, homeworkLogs, clock>>
       ELSE BreakdownBody(r.a, [req EXCEPT !.connected = TRUE])

\* router.get('/api/stats', ensureDatabase, handler)
GetStatsBreakdowns == BreakdownChain("statsBreakdowns")

\* router.get('/stats', ensureDatabase, handler) of the practice records
GetHomeworkStats == BreakdownChain("homeworkStats")

\* How many documents a collection holds: none, one, a few, more than
\* the device breakdown keeps, than the project breakdown keeps, and as
\* many as the bound allows.
DocCounts == {0, 1, 4, DeviceLimit + 1, ProjectLimit + 1, MaxDocs}

\* The collections hold what earlier submissions stored.
InitReport ==
  /\ ConstructorState
  /\ CallsIdle
  /\ store = "untracked"
  /\ \E n \in DocCounts, spread \in Spreads, step \in 0..HalfDaysPerDay :
       /\ donations = {ReportDonation(i, spread, step) : i \in 1..n}
       /\ homework = {ReportHomework(i, spread) : i \in 1..n}
  /\ logs = <<>>
  /\ nextOid = 0
  /\ homeworkLogs = <<>>
  /\ clock = 0
  /\ dbClient = "notRunning"
  /\ last = NoRequest

NextReport ==
  \/ GetStatsBreakdowns
  \/ GetHomeworkStats

SpecReport == InitReport /\ [][NextReport]_vars

(***************************************************************************)
(* The practice-record endpoints of routes.js (the router mounted for the  *)
(* homework records) and of simple-server.js.                              *)
(***************************************************************************)
CounterNames ==
  {"nineWord", "buddhaWorship", "quietZen", "activeZen", "diamond",
   "amitabha", "guanyin", "puxian", "dizang"}

Digits == <<"0", "1", "2", "3", "4", "5", "6", "7", "8", "9">>
IsDigit(ch) == \E i \in 1..10 : Digits[i] = ch
DigitValue(ch) == (CHOOSE i \in 1..10 : Digits[i] = ch) - 1

\* parseInt skips leading white space
RECURSIVE SkipWhiteSpace(_)
SkipWhiteSpace(cs) ==
  IF cs # <<>> /\ Head(cs) = " " THEN SkipWhiteSpace(Tail(cs)) ELSE cs

\* the value of the longest prefix of decimal digits of cs, after acc
RECURSIVE DigitsPrefixValue(_, _)
DigitsPrefixValue(cs, acc) ==
  IF cs = <<>> \/ ~IsDigit(Head(cs))
  THEN acc
  ELSE DigitsPrefixValue(Tail(cs), acc * 10 + DigitValue(Head(cs)))

\* parseInt(v) with no radix: of a string, the optionally signed decimal
\* prefix after white space, NaN when there is none; of an integer number,
\* that number; of undefined and null, NaN
ParseInt(v) ==
  IF v.t = "number" THEN v
  ELSE IF v.t # "string" THEN NaN
  ELSE LET s == SkipWhiteSpace(v.cs)
           signed == s # <<>> /\ Head(s) \in {"-", "+"}
           body == IF signed THEN Tail(s) ELSE s
       IN IF body = <<>> \/ ~IsDigit(Head(body))
          THEN NaN
          ELSE IF signed /\ Head(s) = "-"
               THEN Num(0 - DigitsPrefixValue(body, 0))
               ELSE Num(DigitsPrefixValue(body, 0))

\* database.homeworkRecords() and database.homeworkLogs(): the accessors of
\* the practice-record collection and of its log collection
homeworkRecordsThrows(a) == GetCollectionThrows(a)
homeworkLogsThrows(a) == GetCollectionThrows(a)

\* What clients send as date, as name and as a counter.
DateInputs == {Undef, Str(""), Str("2024-01-01")}
NameInputs == {Undef, Str(""), Str("A")}
CounterInputs == {Undef}

\* counters of every shape, no two alike: digits alone, behind white space
\* or a sign, ahead of other characters, a number, no digits, none
DistinctCounters ==
  [nineWord |-> Chars(<<"1">>), buddhaWorship |-> Chars(<<" ", "2">>),
   quietZen |-> Chars(<<"+", "3">>), activeZen |-> Chars(<<"4", "x">>),
   diamond |-> Chars(<<"-", "5">>), amitabha |-> Chars(<<" ", "1", "2", "x">>),
   guanyin |-> Num(7), puxian |-> Chars(<<"a", "b", "c">>),
   dizang |-> Undef]

\* A request body: date, name, and the counters as the function counters
\* gives them.
HomeworkBody(date, name, counters) ==
  [f \in {"date", "name"} \cup CounterNames |->
     IF f = "date" THEN date
     ELSE IF f = "name" THEN name
     ELSE counters[f]]

\* The bodies of the model: every combination of date and name without
\* counters; and a complete one with counters of every shape.
HomeworkBodies ==
  { HomeworkBody(date, name, [c \in CounterNames |-> Undef]) :
      date \in DateInputs, name \in NameInputs }
  \cup { HomeworkBody(Str("2024-01-01"), Str("A"), [c \in CounterNames |-> v]) :
           v \in CounterInputs }
  \cup { HomeworkBody(Str("2024-01-01"), Str("A"), DistinctCounters) }

\* The bodies sent to simple-server.js
SimpleBodies ==
  { HomeworkBody(date, name, [c \in CounterNames |-> v]) :
      date \in DateInputs, name \in NameInputs, v \in {Chars(<<"-", "5">>)} }
  \cup { HomeworkBody(Str("2024-01-01"), Str("A"), DistinctCounters) }

\* date or name is missing or empty
Incomplete(body) ==
  \/ body.date \in {Undef, Null, Str("")}
  \/ body.name \in {Undef, Null, Str("")}

\* routes.js: the document homeworkRecord built from the body
HomeworkRecord(record, now, oid) ==
  [_id |-> Oid(oid),
   date |-> record.date,
   name |-> record.name,
   createdAt |-> now,
   updatedAt |-> now,
   nineWord |-> OrElse(ParseInt(record.nineWord), Num(0)),
   buddhaWorship |-> OrElse(ParseInt(record.buddhaWorship), Num(0)),
   quietZen |-> OrElse(ParseInt(record.quietZen), Num(0)),
   activeZen |-> OrElse(ParseInt(record.activeZen), Num(0)),
   diamond |-> OrElse(ParseInt(record.diamond), Num(0)),
   amitabha |-> OrElse(ParseInt(record.amitabha), Num(0)),
   guanyin |-> OrElse(ParseInt(record.guanyin), Num(0)),
   puxian |-> OrElse(ParseInt(record.puxian), Num(0)),
   dizang |-> OrElse(ParseInt(record.dizang), Num(0))]

\* router.post('/submit') after ensureDatabase
HomeworkSubmitBody(a, req, record) ==
  \E fail \in {"none", "insert", "log"} :
    LET seen == req
        sent == [c \in CounterNames |-> record[c]]
    IN
    IF homeworkRecordsThrows(a)
    THEN /\ last' = [req EXCEPT !.status = 500]
         /\ UNCHANGED <<homework, homeworkLogs, clock, nextOid>>
    ELSE IF ~Truthy(record.date) \/ ~Truthy(record.name)
    THEN /\ fail = "none"
         /\ last' = [seen EXCEPT !.status = 400]
         /\ UNCHANGED <<homework, homeworkLogs, clock, nextOid>>
    ELSE
      /\ clock < MaxClock
      /\ nextOid < MaxOid
      /\ IF fail = "insert"
         THEN /\ last' = [seen EXCEPT !.status = 500, !.storeOps = 1,
                            !.primary = "failed"]
              /\ UNCHANGED <<homework, homeworkLogs, clock, nextOid>>
         ELSE
           /\ clock' = clock + 1
           /\ nextOid' = nextOid + 1
           /\ homework' = homework \cup {HomeworkRecord(record, clock + 1, nextOid + 1)}
           /\ IF homeworkLogsThrows(a) \/ fail = "log"
              THEN /\ homeworkLogs' = homeworkLogs
                   /\ last' = [seen EXCEPT !.status = 500, !.storeOps = 2,
                                 !.primary = "ok", !.log = "failed",
                                 !.counters = sent]
              ELSE /\ homeworkLogs' = Append(homeworkLogs, LogEntry("homework_submit", 1))
                   /\ last' = [seen EXCEPT !.status = 200, !.storeOps = 2,
                                 !.primary = "ok", !.log = "ok",
                                 !.counters = sent]

\* The ids a client may put into the body of an update or a delete: none,
\* those of stored documents, an ObjectId string of no document, and the
\* string 'all', which is no ObjectId.
HomeworkIds ==
  {""} \cup {d._id : d \in homework} \cup {Oid(MaxOid + 1), "all"}

\* the body of an update without its id: no field, or one field and what
\* it is set to
NoFields == [f \in {} |-> Undef]
UpdateDatas ==
  {NoFields}
  \cup { [f \in {"name"} |-> v] : v \in {Str("")} }
  \cup { [f \in {"remark"} |-> v] : v \in {Str("r")} }

\* a replacement of d by the fields of the body, in place of $set
ReplaceFields(d, updateData, now) ==
  [f \in {"_id", "updatedAt"} \cup DOMAIN updateData |->
     IF f = "_id" THEN d._id
     ELSE IF f = "updatedAt" THEN now
     ELSE updateData[f]]

\* updateOne's { $set: { ...updateData, updatedAt: new Date() } } on d
SetFields(d, updateData, now) ==
  [f \in DOMAIN d \cup DOMAIN updateData \cup {"updatedAt"} |->
     IF f = "updatedAt" THEN now
     ELSE IF f \in DOMAIN updateData THEN updateData[f]
     ELSE d[f]]

\* router.put('/update') after ensureDatabase
HomeworkUpdateBody(a, req, body) ==
  \E fail \in {"none", "primary"} :
    LET id == body.id
        seen == [req EXCEPT !.id = id]
        updateData == body.updateData
        matched == {d \in homework : d._id = id}
    IN
    /\ UNCHANGED <<homeworkLogs, nextOid>>
    /\ IF homeworkRecordsThrows(a)
       THEN /\ last' = [req EXCEPT !.status = 500]
            /\ UNCHANGED <<homework, clock>>
       ELSE IF id = ""
       THEN /\ fail = "none"
            /\ last' = [seen EXCEPT !.status = 400]
            /\ UNCHANGED <<homework, clock>>
       ELSE IF ~ObjectIdIsValid(id)
       THEN \* new ObjectId(id) throws
            /\ fail = "none"
            /\ last' = [seen EXCEPT !.status = 500]
            /\ UNCHANGED <<homework, clock>>
       ELSE IF fail = "primary"
       THEN \* updateOne throws
            /\ last' = [seen EXCEPT !.status = 500, !.primary = "failed"]
            /\ UNCHANGED <<homework, clock>>
       ELSE
         /\ clock < MaxClock
         /\ IF matched = {}
            THEN /\ UNCHANGED <<homework, clock>>
                 /\ last' = [seen EXCEPT !.status = 404, !.storeOps = 1]
            ELSE /\ clock' = clock + 1
                 /\ homework' = (homework \ matched)
                      \cup {SetFields(d, updateData, clock + 1) : d \in matched}
                 /\ last' = [seen EXCEPT !.status = 200, !.storeOps = 1,
                               !.primary = "ok", !.updateData = updateData]

\* router.delete('/delete') after ensureDatabase
HomeworkDeleteBody(a, req, body) ==
  \E fail \in {"none", "primary"} :
    LET id == body.id
        seen == [req EXCEPT !.id = id]
        matched == {d \in homework : d._id = id}
    IN
    /\ UNCHANGED <<homeworkLogs, nextOid, clock>>
    /\ IF homeworkRecordsThrows(a)
       THEN /\ last' = [req EXCEPT !.status = 500]
            /\ UNCHANGED homework
       ELSE IF id = ""
       THEN /\ fail = "none"
            /\ last' = [seen EXCEPT !.status = 400]
            /\ UNCHANGED homework
       ELSE IF ~ObjectIdIsValid(id)
       THEN \* new ObjectId(id) throws
            /\ fail = "none"
            /\ last' = [seen EXCEPT !.status = 500]
            /\ UNCHANGED homework
       ELSE IF fail = "primary"
       THEN \* deleteOne throws
            /\ last' = [seen EXCEPT !.status = 500, !.primary = "failed"]
            /\ UNCHANGED homework
       ELSE IF matched = {}
       THEN /\ last' = [seen EXCEPT !.status = 404, !.storeOps = 1]
            /\ UNCHANGED homework
       ELSE /\ homework' = homework \ matched
            /\ last' = [seen EXCEPT !.status = 200, !.storeOps = 1,
                          !.primary = "ok",
                          !.deletedCount = Cardinality(matched)]

\* the handler each practice-record route ends with
HomeworkHandler(a, req, body) ==
  CASE req.kind = "homeworkSubmit" -> HomeworkSubmitBody(a, req, body)
    [] req.kind = "homeworkUpdate" -> HomeworkUpdateBody(a, req, body)
    [] req.kind = "homeworkDelete" -> HomeworkDeleteBody(a, req, body)

\* The chain of a practice-record route serving the request req with the
\* body body:
\* ensureDatabase, then the handler.
HomeworkChain(req, body) ==
  \E outs \in Outcomes :
    LET r == EnsureDatabase(outs)
    IN
    /\ dbClient = "notRunning"
    /\ SetAdapter(r.a)
    /\ UNCHANGED <<callVars, store, donations, logs, dbClient>>
    /\ IF ~r.ok
       THEN /\ last' = [req EXCEPT !.status = 503]
            /\ UNCHANGED <<homework, homeworkLogs, clock, nextOid>>
       ELSE HomeworkHandler(r.a, [req EXCEPT !.connected = TRUE], body)

\* router.post('/submit', ensureDatabase, handler)
HomeworkSubmit ==
  \E record \in HomeworkBodies :
    HomeworkChain([Request("homeworkSubmit") EXCEPT !.incomplete = Incomplete(record)],
                  record)

\* router.put('/update', ensureDatabase, handler)
HomeworkUpdate ==
  \E id \in HomeworkIds, updateData \in UpdateDatas :
    HomeworkChain(Request("homeworkUpdate"),
                  [id |-> id, updateData |-> updateData])

\* router.delete('/delete', ensureDatabase, handler)
HomeworkDelete ==
  \E id \in HomeworkIds :
    HomeworkChain(Request("homeworkDelete"), [id |-> id])

(***************************************************************************)
(* simple-server.js                                                        *)
(***************************************************************************)
\* connectToMongoDB(): dbClient is "null", "open" (a connected client) or
\* "closed" (a client whose topology is not connected).  `up` is what
\* topology.isConnected() answers for an open client, `out` what connect()
\* of a new client meets.  Yields dbClient afterwards and whether the call
\* returned (ok) or threw.
connectToMongoDB(up, out) ==
  IF dbClient = "open" /\ up
  THEN [dbClient |-> "open", ok |-> TRUE, attempts |-> 0]
  ELSE IF out = "ok"
       THEN [dbClient |-> "open", ok |-> TRUE, attempts |-> 1]
       ELSE [dbClient |-> "closed", ok |-> FALSE, attempts |-> 1]

\* What topology.isConnected() and connect() may answer to one call.
ConnectInputs ==
  IF dbClient = "open"
  THEN {<<TRUE, "ok">>, <<FALSE, "ok">>, <<FALSE, "fails">>}
  ELSE {<<FALSE, "ok">>, <<FALSE, "fails">>}

\* the document { ...data, submitTime, createdAt, updatedAt } as stored
SimpleRecord(data, now, oid) ==
  [f \in DOMAIN data \cup {"_id", "createdAt", "updatedAt"} |->
     IF f = "_id" THEN Oid(oid)
     ELSE IF f \in {"createdAt", "updatedAt"} THEN now
     ELSE data[f]]

\* app.post('/api/submit')
SimpleSubmit ==
  \E data \in SimpleBodies :
    LET req == [Request("simpleSubmit") EXCEPT !.incomplete = Incomplete(data)]
    IN
    /\ dbClient # "notRunning"
    /\ UNCHANGED <<adapterVars, callVars, store, donations, logs, homeworkLogs>>
    /\ IF ~Truthy(data.date) \/ ~Truthy(data.name)
       THEN /\ last' = [req EXCEPT !.status = 400]
            /\ UNCHANGED <<homework, clock, nextOid, dbClient>>
       ELSE
         /\ clock < MaxClock
         /\ nextOid < MaxOid
         /\ \E in \in ConnectInputs, fail \in {"none", "insert"} :
              LET r == connectToMongoDB(in[1], in[2])
                  seen == [req EXCEPT !.connected = r.ok]
              IN
              /\ dbClient' = r.dbClient
              /\ IF ~r.ok
                 THEN /\ fail = "none"
                      /\ last' = [seen EXCEPT !.status = 500]
                      /\ UNCHANGED <<homework, clock, nextOid>>
                 ELSE IF fail = "insert"
                 THEN /\ last' = [seen EXCEPT !.status = 500, !.storeOps = 1,
                                    !.primary = "failed"]
                      /\ UNCHANGED <<homework, clock, nextOid>>
                 ELSE /\ clock' = clock + 1
                      /\ nextOid' = nextOid + 1
                      /\ homework' = homework \cup {SimpleRecord(data, clock + 1, nextOid + 1)}
                      /\ last' = [seen EXCEPT !.status = 200, !.storeOps = 1,
                                    !.primary = "ok",
                                    !.counters = [c \in CounterNames |-> data[c]]]

\* app.put('/api/update')
SimpleUpdate ==
  \E id \in HomeworkIds, updateData \in UpdateDatas :
    LET req == [Request("simpleUpdate") EXCEPT !.id = id]
        matched == {d \in homework : d._id = id}
    IN
    /\ dbClient # "notRunning"
    /\ UNCHANGED <<adapterVars, callVars, store, donations, logs, homeworkLogs, nextOid>>
    /\ IF id = ""
       THEN /\ last' = [req EXCEPT !.status = 400]
            /\ UNCHANGED <<homework, clock, dbClient>>
       ELSE
         \E in \in ConnectInputs, fail \in {"none", "primary"} :
           LET r == connectToMongoDB(in[1], in[2])
           IN
           /\ dbClient' = r.dbClient
           /\ IF ~r.ok
              THEN /\ fail = "none"
                   /\ last' = [req EXCEPT !.status = 500]
                   /\ UNCHANGED <<homework, clock>>
              ELSE
                \* updateData.updatedAt = new Date()
                /\ clock < MaxClock
                /\ IF ~ObjectIdIsValid(id)
                   THEN \* new ObjectId(id) throws
                        /\ fail = "none"
                        /\ last' = [req EXCEPT !.status = 500, !.connected = TRUE]
                        /\ UNCHANGED <<homework, clock>>
                   ELSE IF fail = "primary"
                   THEN \* updateOne throws
                        /\ last' = [req EXCEPT !.status = 500, !.primary = "failed",
                                      !.connected = TRUE]
                        /\ UNCHANGED <<homework, clock>>
                   ELSE /\ clock' = IF matched = {} THEN clock ELSE clock + 1
                        /\ homework' = (homework \ matched)
                             \cup {SetFields(d, updateData, clock + 1) : d \in matched}
                        /\ last' = [req EXCEPT !.status = 200, !.storeOps = 1,
                                      !.primary = "ok", !.connected = TRUE,
                                      !.updateData = updateData]

\* app.delete('/api/delete')
SimpleDelete ==
  \E id \in HomeworkIds :
    LET req == [Request("simpleDelete") EXCEPT !.id = id]
        matched == {d \in homework : d._id = id}
    IN
    /\ dbClient # "notRunning"
    /\ UNCHANGED <<adapterVars, callVars, store, donations, logs, homeworkLogs, nextOid, clock>>
    /\ IF id = ""
       THEN /\ last' = [req EXCEPT !.status = 400]
            /\ UNCHANGED <<homework, dbClient>>
       ELSE
         \E in \in ConnectInputs, fail \in {"none", "primary"} :
           LET r == connectToMongoDB(in[1], in[2])
           IN
           /\ dbClient' = r.dbClient
           /\ IF ~r.ok
              THEN /\ fail = "none"
                   /\ last' = [req EXCEPT !.status = 500]
                   /\ UNCHANGED homework
              ELSE IF id = "all"
              THEN IF fail = "primary"
                   THEN \* deleteMany throws
                        /\ last' = [req EXCEPT !.status = 500, !.primary = "failed",
                                      !.connected = TRUE]
                        /\ UNCHANGED homework
                   ELSE /\ homework' = {}
                        /\ last' = [req EXCEPT !.status = 200, !.storeOps = 1,
                                      !.primary = "ok", !.connected = TRUE,
                                      !.deletedCount = Cardinality(homework)]
              ELSE IF ~ObjectIdIsValid(id)
              THEN \* new ObjectId(id) throws
                   /\ fail = "none"
                   /\ last' = [req EXCEPT !.status = 500, !.connected = TRUE]
                   /\ UNCHANGED homework
              ELSE IF fail = "primary"
              THEN \* deleteOne throws
                   /\ last' = [req EXCEPT !.status = 500, !.primary = "failed",
                                 !.connected = TRUE]
                   /\ UNCHANGED homework
              ELSE /\ homework' = homework \ matched
                   /\ last' = [req EXCEPT !.status = 200, !.storeOps = 1,
                                 !.primary = "ok", !.connected = TRUE,
                                 !.deletedCount = Cardinality(matched)]

\* The process is either server.js, which mounts the router of routes.js,
\* or simple-server.js, whose dbClient starts as null.
InitHomework ==
  /\ ConstructorState
  /\ CallsIdle
  /\ store = "untracked"
  /\ StoreEmpty
  /\ dbClient \in {"notRunning", "null"}
  /\ last = NoRequest

NextHomework ==
  \/ HomeworkSubmit
  \/ HomeworkUpdate
  \/ HomeworkDelete
  \/ SimpleSubmit
  \/ SimpleUpdate
  \/ SimpleDelete

SpecHomework == InitHomework /\ [][NextHomework]_vars

(***************************************************************************)
(* Claims about the donation endpoints.                                    *)
(***************************************************************************)
AdminKinds == {"deleteOne", "deleteBatch", "clearAll", "getLogs"}
LoggedKinds ==
  {"submit", "homeworkSubmit", "deleteOne", "deleteBatch", "clearAll"}

\* a non-empty string
NonEmptyString(v) == IsString(v) /\ Truthy(v)

\* C1: for every operation that writes an operation-log entry (donation
\* batch submit, practice-record submit, delete one donation, delete a
\* batch, clear all donations), whenever the insert
\* or delete itself succeeded the response is the success response, whether
\* or not the log write succeeded.
C1_LogFailureNeverFailsPrimary ==
  (last.kind \in LoggedKinds /\ last.primary = "ok") => last.status = 200

\* C3: an administrator endpoint invoked with a wrong or missing credential
\* answers 401 or 403, and the donation collection and the operation-log
\* collection are the same after the request as before it.
C3_AdminGate ==
  [][ (last'.kind \in AdminKinds /\ last'.adminPassword # expectedPassword)
        => /\ last'.status \in {401, 403}
           /\ donations' = donations
           /\ logs' = logs
    ]_vars

\* C4: a request to an administrator endpoint with a wrong or missing
\* credential ends with the authorization error, and its handler chain has
\* made no store operation and no connection attempt.
C4_CredentialCheckBeforeStoreAccess ==
  (last.kind \in AdminKinds /\ last.adminPassword # expectedPassword)
    => /\ last.status \in {401, 403}
       /\ last.attempts = 0
       /\ last.storeOps = 0

\* C5: a batch submission that reaches a reachable store and whose insert
\* does not fail: with at least one valid entry it succeeds with
\* submittedCount = n-k and failedCount = k, warns exactly when k > 0, and
\* the n-k valid entries and nothing else are added to the store; with no
\* valid entry it is rejected with 400 and the store keeps its records.
C5_BatchPartialAcceptance ==
  [][ (last'.kind = "submit" /\ last'.status # 503 /\ last'.primary # "failed"
       /\ ~GetCollectionThrows(Adapter'))
        => IF last'.valid >= 1
           THEN /\ last'.status = 200
                /\ last'.submittedCount = last'.valid
                /\ last'.failedCount = last'.n - last'.valid
                /\ last'.warning <=> (last'.n - last'.valid > 0)
                /\ donations \subseteq donations'
                /\ Cardinality(donations' \ donations) = last'.valid
                /\ \A d \in donations' \ donations :
                     /\ d._id \in last'.insertedIds
                     /\ NonEmptyString(d.name)
                     /\ NonEmptyString(d.project)
           ELSE /\ last'.status = 400
                /\ donations' = donations
    ]_vars

\* C12: a delete of one donation with a valid credential, when no store
\* operation of the request fails and the id matches a stored record by
\* _id, else by localId, else by serverId, succeeds and removes exactly one
\* record, one matched by the earliest of these three keys that matches.
C12_DeleteIdentifierFallback ==
  [][ LET id == last'.id
          byId == {d \in donations : d._id = id}
          byLocalId == {d \in donations : d.localId = Str(id)}
          byServerId == {d \in donations : d.serverId = id}
          first == IF byId # {} THEN byId
                   ELSE IF byLocalId # {} THEN byLocalId ELSE byServerId
      IN (/\ last'.kind = "deleteOne"
          /\ last'.adminPassword = expectedPassword
          /\ last'.storeOps >= 1
          /\ last'.primary # "failed"
          /\ ~last'.swallowed
          /\ first # {})
           => /\ last'.status = 200
              /\ \E d \in first : donations' = donations \ {d}
    ]_vars

\* C6: after a successful batch submission every record it stored carries
\* the batchId its response reports.
C6_OneBatchIdPerSubmission ==
  (last.kind = "submit" /\ last.status = 200)
    => \A d \in donations :
         d._id \in last.insertedIds => d.batchId = last.batchId

\* C8: every record in the donation collection has a name and a project
\* that are both non-empty strings.
C8_StoredDonationsValid ==
  \A d \in donations : NonEmptyString(d.name) /\ NonEmptyString(d.project)

\* C8 witness: after a deletion, a submission that dropped an invalid entry
\* has stored its valid ones.
C8_Witness ==
  /\ last.kind = "submit"
  /\ last.status = 200
  /\ last.failedCount > 0
  /\ donations # {}
  /\ \E i \in DOMAIN logs : logs[i].type = "donation_delete"

(***************************************************************************)
(* Claims about the practice-record endpoints.                             *)
(***************************************************************************)
SubmitKinds == {"homeworkSubmit", "simpleSubmit"}

\* C2: a practice-record submission whose date or name is missing or empty
\* is answered with 400, and the practice-record collection is the same
\* after the request as before it.
C2_RequiredFieldGate ==
  [][ (last'.kind \in SubmitKinds /\ last'.incomplete)
        => /\ last'.status = 400
           /\ homework' = homework
    ]_vars

\* C13: an update or a delete that reached the store, no store operation
\* failing, with an identifier matching no stored record is answered 404 and leaves the collection as
\* it was: the practice-record update and delete handlers, and the donation
\* delete-one and delete-batch handlers.
C13_NoMatchIsNotFound ==
  [][ /\ (/\ last'.kind \in {"homeworkUpdate", "homeworkDelete",
                             "simpleUpdate", "simpleDelete"}
          /\ last'.storeOps >= 1 /\ last'.primary # "failed"
          /\ last'.id \notin {"", "all"}
          /\ \A d \in homework : d._id # last'.id)
            => (last'.status = 404 /\ homework' = homework)
      /\ (/\ last'.kind = "deleteOne"
          /\ last'.storeOps >= 1 /\ last'.primary # "failed"
          /\ \A d \in donations :
               d._id # last'.id /\ ~MatchesLocalOrServerId(d, last'.id))
            => (last'.status = 404 /\ donations' = donations)
      /\ (/\ last'.kind = "deleteBatch"
          /\ last'.storeOps >= 1 /\ last'.primary # "failed"
          /\ \A d \in donations : d.batchId # Str(last'.id))
            => (last'.status = 404 /\ donations' = donations)
    ]_vars

\* C14: a practice-record delete that got its store connection and whose
\* store operation did not fail: with id 'all' it succeeds, removes every
\* record and reports their number as deletedCount; with any other id it
\* removes at most one record, and only one whose _id is that id.
C14_DeleteAllSentinel ==
  [][ (/\ last'.kind \in {"homeworkDelete", "simpleDelete"}
       /\ last'.connected
       /\ last'.primary # "failed")
        => IF last'.id = "all"
           THEN /\ last'.status = 200
                /\ homework' = {}
                /\ last'.deletedCount = Cardinality(homework)
           ELSE /\ homework' \subseteq homework
                /\ Cardinality(homework \ homework') <= 1
                /\ \A d \in homework \ homework' : d._id = last'.id
    ]_vars

\* C15: a successful practice-record update changes only the record whose
\* _id is the given id: afterwards that record has the fields named in the
\* body with the values of the body, updatedAt set to the instant of the
\* update, and every other field as before; every other record is as
\* before, and no record is added or removed.
C15_UpdateIsPartialReplace ==
  [][ (last'.kind \in {"homeworkUpdate", "simpleUpdate"} /\ last'.status = 200)
        => /\ Cardinality(homework') = Cardinality(homework)
           /\ \A d \in homework :
                IF d._id # last'.id
                THEN d \in homework'
                ELSE \E e \in homework' :
                       /\ e._id = d._id
                       /\ clock' > clock
                       /\ DOMAIN e = DOMAIN d \cup DOMAIN last'.updateData
                       /\ \A f \in DOMAIN e :
                            e[f] = IF f = "updatedAt" THEN clock'
                                   ELSE IF f \in DOMAIN last'.updateData
                                        THEN last'.updateData[f]
                                        ELSE d[f]
    ]_vars

\* C15 witness: an update has set a field of one of two stored records.
C15_Witness ==
  /\ last.kind \in {"homeworkUpdate", "simpleUpdate"}
  /\ last.status = 200
  /\ DOMAIN last.updateData # {}
  /\ Cardinality(homework) >= 2
  /\ \E d \in homework :
       d._id = last.id /\ d.updatedAt = clock /\ d.createdAt < d.updatedAt

\* C7: every stored practice record has a date and a name that are present
\* and not empty, and each of its nine counters is a non-negative integer.
C7_StoredRecordsWellFormed ==
  \A d \in homework :
    /\ d.date \notin {Undef, Null, Str("")}
    /\ d.name \notin {Undef, Null, Str("")}
    /\ \A c \in CounterNames : d[c].t = "number" /\ d[c].n >= 0

\* C16: an export request whose export was built (the connection was
\* obtained and the find did not fail) is answered 200, whether or not the
\* write of its operation-log entry succeeds.
C16_ExportSurvivesLogFailure ==
  [][ (/\ last'.kind \in {"exportCsv", "exportJson"}
       /\ last'.primary = "ok")
        => last'.status = 200
    ]_vars

\* C17: every mutating request answered 200 appends one entry to the
\* operation log of its collection: a practice-record submit, update or
\* delete to the practice-record log, a donation submit, delete-one,
\* delete-batch or clear-all to the donation log.
C17_MutationsAreLogged ==
  [][ /\ (/\ last'.kind \in {"homeworkSubmit", "homeworkUpdate", "homeworkDelete",
                             "simpleSubmit", "simpleUpdate", "simpleDelete"}
          /\ last'.status = 200)
            => (Len(homeworkLogs') = Len(homeworkLogs) + 1
                /\ SubSeq(homeworkLogs', 1, Len(homeworkLogs)) = homeworkLogs)
      /\ (/\ last'.kind \in {"submit", "deleteOne", "deleteBatch", "clearAll"}
          /\ last'.status = 200)
            => (Len(logs') = Len(logs) + 1
                /\ SubSeq(logs', 1, Len(logs)) = logs)
    ]_vars

\* C18: the operation log is append-only: whatever request is served,
\* clear-all and batch delete included, the entries the log held stay in
\* it, in their places and unchanged, and new entries go to its end.
C18_LogAppendOnly ==
  [][ /\ Len(logs') >= Len(logs)
      /\ SubSeq(logs', 1, Len(logs)) = logs
    ]_vars

\* a clear-all served while the log held the entry of a submission
C18_Witness ==
  /\ last.kind = "clearAll"
  /\ last.status = 200
  /\ donations = {}
  /\ Len(logs) = 2
  /\ logs[1].type = "donation_submit"
  /\ logs[2].type = "clear_all_data"

\* C19: a practice-record submission with date and name present is never
\* answered 400, and the record it stores carries 0 in every counter whose
\* input is missing or does not parse as an integer.
C19_MalformedCountersStoredAsZero ==
  [][ (last'.kind \in {"homeworkSubmit", "simpleSubmit"} /\ ~last'.incomplete)
        => /\ last'.status # 400
           /\ last'.primary = "ok"
                => \E d \in homework' \ homework :
                     \A c \in CounterNames :
                       ParseInt(last'.counters[c]) = NaN => d[c] = Num(0)
    ]_vars

\* C20: the growth rate of a statistics report with yesterday's count y
\* and today's count t is "0.0%" when y = 0 and t = 0, "100.0%" when
\* y = 0 and t > 0, and when y > 0 it is (t - y) / y * 100 to one decimal
\* place and "%": a sign when the quotient is negative, then the tenths
\* n / 10 within half a tenth of its magnitude; y = 10 and t = 15 give
\* "50.0%".
C20_GrowthRate ==
  (last.kind = "stats" /\ last.status = 200)
    => LET y == last.yesterdayCount
           t == last.todayCount
           mag == IF t < y THEN (y - t) * 100 ELSE (t - y) * 100
       IN /\ (y = 0 /\ t = 0) => last.growthRate = "0.0%"
          /\ (y = 0 /\ t > 0) => last.growthRate = "100.0%"
          /\ (y = 10 /\ t = 15) => last.growthRate = "50.0%"
          /\ y > 0 =>
               \E n \in 0..(1000 * MaxCount) :
                 /\ 2 * n * y - 20 * mag <= y
                 /\ 20 * mag - 2 * n * y <= y
                 /\ last.growthRate =
                      (IF t < y THEN "-" ELSE "")
                        \o ToString(n \div 10) \o "." \o ToString(n % 10) \o "%"

\* a report of 10 donations yesterday and 15 today
C20_Witness ==
  /\ last.kind = "stats"
  /\ last.status = 200
  /\ last.yesterdayCount = 10
  /\ last.todayCount = 15
  /\ last.growthRate = "50.0%"

\* Reading a row as CSV: the cells read so far, the cell being read, and
\* whether the reader is inside a quoted cell.  Inside quotes a doubled
\* quote is one quote and a single quote ends the quoted part; outside, a
\* comma ends the cell and a quote at the start of a cell opens quotes.
RECURSIVE ReadCsv(_, _, _, _)
ReadCsv(rest, cells, cell, quoted) ==
  IF rest = <<>>
  THEN Append(cells, cell)
  ELSE IF quoted
  THEN IF Head(rest) # Quote
       THEN ReadCsv(Tail(rest), cells, Append(cell, Head(rest)), TRUE)
       ELSE IF Len(rest) >= 2 /\ rest[2] = Quote
       THEN ReadCsv(Tail(Tail(rest)), cells, Append(cell, Quote), TRUE)
       ELSE ReadCsv(Tail(rest), cells, cell, FALSE)
  ELSE IF Head(rest) = Comma
  THEN ReadCsv(Tail(rest), Append(cells, cell), <<>>, FALSE)
  ELSE IF Head(rest) = Quote /\ cell = <<>>
  THEN ReadCsv(Tail(rest), cells, cell, TRUE)
  ELSE ReadCsv(Tail(rest), cells, Append(cell, Head(rest)), FALSE)

ParseCsvRow(row) == ReadCsv(row, <<>>, <<>>, FALSE)

\* C22: every row of a CSV export, of the donation export and of the
\* practice-record export, read as CSV gives back the name of its record
\* in the name cell, a double quote of the name being doubled inside the
\* quoted cell, and gives as many cells as the row was built from.
C22_CsvRoundTrip ==
  /\ (last.kind = "donationCsv" /\ last.status = 200)
       => \A item \in donations :
            /\ DonationRow(item, 1) \in last.csv
            /\ Len(ParseCsvRow(DonationRow(item, 1))) = 3
            /\ ParseCsvRow(DonationRow(item, 1))[2] = item.name.cs
  /\ (last.kind = "homeworkCsv" /\ last.status = 200)
       => \A item \in homework :
            \E row \in last.csv :
              /\ Len(ParseCsvRow(row)) = 3
              /\ ParseCsvRow(row)[2] = item.name.cs

\* C28: every response of the donation list reports one count of the
\* records matched: pagination.totalCount equals stats.overall.totalRecords
\* and the page holds no more records than that, whether or not
\* submissions and deletions ran while the request was served.
C28_ListCountsAgree ==
  (last.kind = "list" /\ last.status = 200)
    => /\ last.totalCount = last.statsResult.count
       /\ last.pageLength <= last.totalCount

\* C29: in every response of the donation list that no write fell into,
\* the counts of stats.byProject add up to stats.overall.totalRecords.
C29_ByProjectPartitions ==
  (last.kind = "list" /\ last.status = 200 /\ ~last.disturbed)
    => SumOf(last.byProject) = last.statsResult.count

\* the donations submitted within the calendar day `day` of the time zone tz
OfDay(day, tz) ==
  {d \in donations : (d.submittedAt + tz) \div QuartersPerDay = day}

\* C23: a donation list or export asked for startDate = endDate = D
\* selects the donations submitted within day D, from its first instant to
\* its last, and no others, the day being that of one time zone for both
\* ends: that of UTC or that of the local time of the process.
C23_SameDayRangeCoversDay ==
  (last.kind \in {"listRange", "exportRange"} /\ last.status = 200)
    => \/ last.matched = OfDay(QueryDay, 0)
       \/ last.matched = OfDay(QueryDay, last.tz)

\* the counts of a breakdown never go up along it
SortedByCountDesc(groups) ==
  \A i \in 1..Len(groups), j \in 1..Len(groups) :
    i < j => groups[i].count >= groups[j].count

\* C21: in a statistics report the breakdowns by project, by payment
\* status, by calendar day and by device are sorted by descending count,
\* the project breakdown holds at most 20 groups and the device breakdown
\* at most 10, and the overall total counts every donation; in the
\* practice-record report the breakdown by submitter is sorted by
\* descending count and the total counts every record.
C21_BreakdownsSortedTotalsComplete ==
  /\ (last.kind = "statsBreakdowns" /\ last.status = 200)
       => /\ SortedByCountDesc(last.report.byProject)
          /\ SortedByCountDesc(last.report.byPayment)
          /\ SortedByCountDesc(last.report.daily)
          /\ SortedByCountDesc(last.report.byDevice)
          /\ Len(last.report.byProject) <= ProjectLimit
          /\ Len(last.report.byDevice) <= DeviceLimit
          /\ last.report.overall.totalRecords = Cardinality(donations)
  /\ (last.kind = "homeworkStats" /\ last.status = 200)
       => /\ SortedByCountDesc(last.report.nameStats)
          /\ last.report.totalRecords = Cardinality(homework)

\* C30: the daily breakdown of a statistics report has, for every calendar
\* day with a donation submitted in the window from 30 days before now up
\* to now, today included, one group of that day whose count is the
\* number of the donations of the window submitted on that day.
C30_DailyBreakdownCoversWindow ==
  (last.kind = "statsBreakdowns" /\ last.status = 200)
    => LET window == {d \in donations :
                        d.submittedAt >= last.now - WindowDays * HalfDaysPerDay}
       IN \A day \in {DayOf(d.submittedAt) : d \in window} :
            \E i \in 1..Len(last.report.daily) :
              /\ last.report.daily[i]._id = day
              /\ last.report.daily[i].count =
                   Cardinality({d \in window : DayOf(d.submittedAt) = day})
              /\ \A j \in 1..Len(last.report.daily) :
                   last.report.daily[j]._id = day => j = i

(***************************************************************************)
(* Claims about the record store adapter.                                  *)
(***************************************************************************)

\* C9: a connect() call entered while the adapter is connected returns the
\* cached handle this.db at once and creates no client; and as long as the
\* adapter stays connected, client and db keep their values, so every call
\* is handed the same handle.
C9_ConnectedReturnsCachedHandle ==
  [][ /\ \A c \in Callers :
           (isConnected /\ pc[c] \in {"idle", "sleeping"} /\ pc'[c] # pc[c])
             => /\ pc'[c] = "returned"
                /\ result'[c] = db
                /\ UNCHANGED <<client, db, isConnected, nextClient>>
      /\ \A c \in Callers :
           (pc[c] # "returned" /\ pc'[c] = "returned") => result'[c] = db'
      /\ (isConnected /\ isConnected')
             => (db' = db /\ client' = client /\ nextClient' = nextClient)
    ]_vars

\* C9 witness: a call that made no connection attempt holds the cached
\* handle of a connected adapter.
C9_Witness ==
  \E c \in Callers :
    /\ pc[c] = "returned"
    /\ tries[c] = 0
    /\ isConnected
    /\ db # 0
    /\ result[c] = db

\* C11: the reconnection check calls connect() only while isConnected is
\* false; and when its call has thrown, the check goes back to waiting for
\* its next interval, no other caller's call or result being touched.
C11_ReconnectionCheckGuardedAndSwallowed ==
  [][ /\ (pc["timer"] = "idle" /\ pc'["timer"] # "idle") => ~isConnected
      /\ (pc["timer"] = "thrown" /\ pc'["timer"] # "thrown")
            => /\ pc'["timer"] = "idle"
               /\ \A c \in Callers \ {"timer"} :
                    pc'[c] = pc[c] /\ result'[c] = result[c]
    ]_vars

\* C11 witness: a reconnection attempt of the check has failed for good
\* while another caller holds a handle or an error of its own.
C11_Witness ==
  /\ pc["timer"] = "thrown"
  /\ tries["timer"] >= 1
  /\ \E c \in Callers \ {"timer"} : pc[c] \in {"returned", "thrown"}

\* C10: every connect() call that surfaces the connection error has made
\* maxRetries retries of its own before doing so.
C10_EveryCallRetriesToTheBound ==
  \A c \in Callers : pc[c] = "thrown" => retries[c] = maxRetries

\* a connect() call that created a client and has not seen its attempt fail
Establishing(c) == pc[c] \in {"connecting", "pinging"}

\* C24: whatever the interleaving of the connect() calls of the requests,
\* of the start-up connect and of the reconnection check, one client is
\* created per connection establishment: the calls that are establishing a
\* connection all wait for the same client, and that client is the one the
\* adapter holds, none having been overwritten by a later call.
C24_OneClientPerEstablishment ==
  \A c \in Callers :
    Establishing(c)
      => /\ awaited[c] = client
         /\ \A d \in Callers : Establishing(d) => awaited[d] = awaited[c]

\* C25: the connected flag is true only when an establishment completed,
\* the ping included: a call whose attempt fails at the ping, no other call
\* being under way, leaves the adapter disconnected, so that the retry and
\* the later calls are not handed the handle as already connected.
C25_FailedPingLeavesDisconnected ==
  [][ \A c \in Callers :
        (/\ pc[c] = "pinging"
         /\ pc'[c] \in {"sleeping", "thrown"}
         /\ \A d \in Callers \ {c} : pc[d] = "idle")
          => ~isConnected'
    ]_vars

\* C26: once the store is restored after an outage, a disconnected adapter
\* becomes connected through the reconnection check alone, the retries
\* used up or not; and from then on it stays connected, and every
\* connect() call returns the handle, none throwing.
C26_RestoredStoreReconnects ==
  /\ (store = "restored" /\ ~isConnected) ~> isConnected
  /\ [][ (store = "restored" /\ isConnected)
            => /\ isConnected'
               /\ \A c \in Callers :
                    /\ pc'[c] = "thrown" => pc[c] = "thrown"
                    /\ (pc[c] = "idle" /\ pc'[c] # "idle")
                          => (pc'[c] = "returned" /\ result'[c] = db)
      ]_vars

\* C26 witness: the retries were used up during the outage, and after it
\* the reconnection check connected the adapter with a single attempt.
C26_Witness ==
  /\ store = "restored"
  /\ retryCount = maxRetries
  /\ isConnected
  /\ pc["timer"] = "returned"
  /\ tries["timer"] = 1
  /\ result["timer"] = db

\* the sum of f over the callers
RECURSIVE SumOver(_, _)
SumOver(f, cs) ==
  IF cs = {} THEN 0
  ELSE LET c == CHOOSE x \in cs : TRUE IN f[c] + SumOver(f, cs \ {c})

\* C27: every connect() call ends, with a handle or with the error; the
\* retries of all calls are counted in the one counter, which only goes up
\* and stops at maxRetries, so the calls under way have made no more
\* connection attempts than one each and maxRetries between them.
C27_CallsEndWithinSharedRetries ==
  /\ [](/\ retryCount <= maxRetries
        /\ SumOver(retries, Callers) <= retryCount
        /\ \A c \in Callers : tries[c] <= 1 + retries[c]
        /\ SumOver(tries, Callers)
             <= Cardinality({c \in Callers : pc[c] # "idle"}) + maxRetries)
  /\ [][retryCount' >= retryCount]_vars
  /\ \A c \in Callers :
       (pc[c] # "idle") ~> (pc[c] \in {"returned", "thrown"})

\* C27 witness: two calls made during the outage have both thrown, having
\* made one attempt each and the maxRetries retries between them.
C27_Witness ==
  \E c, d \in Callers :
    /\ c # d
    /\ pc[c] = "thrown"
    /\ pc[d] = "thrown"
    /\ retries[c] > 0
    /\ retries[d] > 0
    /\ tries[c] + tries[d] = 2 + maxRetries

=============================================================================
